---------------------------- MODULE Spec2Model ----------------------------
(***************************************************************************)
(* Model of the affective cognition engine of                              *)
(* src/src/core/character/advanced_emotions.py: the AffectiveDimensions    *)
(* vector algebra, the appraisal pattern table, and the operations of      *)
(* AdvancedEmotionalState (appraise_message, update_affect, decay) on      *)
(* states built by create_advanced_emotional_state or by the constructor.  *)
(*                                                                         *)
(* Real numbers are fixed-point integers in units of 1/Scale: 0.15 is 150. *)
(* A product or quotient that is not a multiple of 1/Scale is rounded      *)
(* toward zero.  The literals of the pattern table, the weights derived    *)
(* from them and the appraisal sums are exact in this representation.      *)
(* Text is a sequence of one-character strings.                            *)
(***************************************************************************)
EXTENDS Integers, Sequences, FiniteSets, TLC

\* ------------------------------------------------------------------
\* Fixed-point arithmetic
\* ------------------------------------------------------------------
Scale == 1000

\* float('nan'): a value outside the numbers, for which every comparison is false
NaN == 1000000000

IsNaN(x) == x = NaN

Min(a, b) == IF a < b THEN a ELSE b

Max(a, b) == IF a > b THEN a ELSE b

Abs(a) == IF a < 0 THEN -a ELSE a

\* n / d for d > 0, rounded toward zero
TDiv(n, d) == IF n >= 0 THEN n \div d ELSE -((-n) \div d)

\* a * b of two fixed-point numbers
Mul(a, b) == TDiv(a * b, Scale)

\* max(lo, min(hi, x))
Clamp(lo, hi, x) == Max(lo, Min(hi, x))

\* ------------------------------------------------------------------
\* AffectiveDimensions
\* ------------------------------------------------------------------
AffectiveDimensions(v, a, d) == [valence |-> v, arousal |-> a, dominance |-> d]

\* self.x * (1 - weight) + other.x * weight on each axis; no clamp
blend(self, other, weight) ==
  AffectiveDimensions(
    TDiv(self.valence * (Scale - weight) + other.valence * weight, Scale),
    TDiv(self.arousal * (Scale - weight) + other.arousal * weight, Scale),
    TDiv(self.dominance * (Scale - weight) + other.dominance * weight, Scale))

\* The radicand of distance_to, in units of 1/Scale^2.  The square root is
\* strictly increasing, so two distances compare as their squares do.
DistanceSquared(self, other) ==
    (self.valence - other.valence) * (self.valence - other.valence)
  + (self.arousal - other.arousal) * (self.arousal - other.arousal)
  + (self.dominance - other.dominance) * (self.dominance - other.dominance)

\* decay_toward with the sign of the step reversed
decay_away(self, baseline, rate) ==
  AffectiveDimensions(
    self.valence - Mul(baseline.valence - self.valence, rate),
    self.arousal - Mul(baseline.arousal - self.arousal, rate),
    self.dominance - Mul(baseline.dominance - self.dominance, rate))

\* self.x + (baseline.x - self.x) * rate on each axis; no clamp
decay_toward(self, baseline, rate) ==
  AffectiveDimensions(
    self.valence + Mul(baseline.valence - self.valence, rate),
    self.arousal + Mul(baseline.arousal - self.arousal, rate),
    self.dominance + Mul(baseline.dominance - self.dominance, rate))

\* ------------------------------------------------------------------
\* Panksepp's primary affective systems
\* ------------------------------------------------------------------
\* enum values in declaration order, which is the key order of system_activations
AffectiveSystem == <<"seeking", "rage", "fear", "lust", "care", "panic_grief", "play">>

Systems == {AffectiveSystem[i] : i \in DOMAIN AffectiveSystem}

SYSTEM_DIMENSIONS ==
  [s \in Systems |->
     CASE s = "seeking"     -> AffectiveDimensions(500, 600, 400)
       [] s = "rage"        -> AffectiveDimensions(-700, 900, 600)
       [] s = "fear"        -> AffectiveDimensions(-800, 700, -600)
       [] s = "lust"        -> AffectiveDimensions(600, 700, 200)
       [] s = "care"        -> AffectiveDimensions(700, 200, 300)
       [] s = "panic_grief" -> AffectiveDimensions(-800, 400, -700)
       [] s = "play"        -> AffectiveDimensions(800, 600, 300)]

\* ------------------------------------------------------------------
\* AppraisalResult
\* ------------------------------------------------------------------
AppraisalFields ==
  <<"novelty", "pleasantness", "goal_relevance", "goal_conduciveness", "urgency",
    "control", "power", "adjustment", "internal_standards", "external_standards">>

\* AppraisalResult(): every field defaults to 0.0
AppraisalResult ==
  [novelty |-> 0, pleasantness |-> 0, goal_relevance |-> 0,
   goal_conduciveness |-> 0, urgency |-> 0, control |-> 0, power |-> 0,
   adjustment |-> 0, internal_standards |-> 0, external_standards |-> 0]

to_dimensions(self) ==
  LET valence == TDiv(self.pleasantness + self.goal_conduciveness, 2)
      arousal == TDiv(self.novelty + self.urgency + self.goal_relevance, 3)
      dominance == TDiv(self.control + self.power, 2)
  IN  AffectiveDimensions(Clamp(-Scale, Scale, valence),
                          Clamp(-Scale, Scale, arousal),
                          Clamp(-Scale, Scale, dominance))

\* ------------------------------------------------------------------
\* APPRAISAL_PATTERNS: keywords, appraisal effects (0 for a dimension the
\* pattern does not name) and the system the pattern activates
\* ------------------------------------------------------------------
SeekingPattern ==
  [keywords |-> <<
      <<"t","e","l","l"," ","m","e">>, <<"w","h","a","t">>, <<"w","h","y">>, <<"h","o","w">>,
      <<"e","x","p","l","a","i","n">>, <<"c","u","r","i","o","u","s">>, <<"w","o","n","d","e","r">>,
      <<"i","n","t","e","r","e","s","t","i","n","g">>, <<"d","i","s","c","o","v","e","r">>,
      <<"e","x","p","l","o","r","e">>, <<"l","e","a","r","n">>,
      <<"u","n","d","e","r","s","t","a","n","d">>, <<"d","i","m","m","i">>, <<"c","o","s","a">>,
      <<"p","e","r","c","h","é">>, <<"c","o","m","e">>, <<"s","p","i","e","g","a">>,
      <<"c","u","r","i","o","s","o">> >>,
   appraisal_effects |->
     [novelty |-> 500, pleasantness |-> 300, goal_relevance |-> 600,
      goal_conduciveness |-> 0, urgency |-> 0, control |-> 0, power |-> 0,
      adjustment |-> 0, internal_standards |-> 0, external_standards |-> 0],
   system_activation |-> "seeking"]

RagePattern ==
  [keywords |-> <<
      <<"a","n","g","r","y">>, <<"f","u","r","i","o","u","s">>, <<"h","a","t","e">>,
      <<"u","n","f","a","i","r">>, <<"f","r","u","s","t","r","a","t","i","n","g">>,
      <<"a","n","n","o","y","i","n","g">>, <<"e","n","e","m","y">>,
      <<"b","e","t","r","a","y","e","d">>, <<"c","h","e","a","t","e","d">>,
      <<"s","t","o","l","e","n">>, <<"i","n","j","u","s","t","i","c","e">>,
      <<"a","r","r","a","b","b","i","a","t","o">>, <<"o","d","i","o">>,
      <<"i","n","g","i","u","s","t","o">>, <<"t","r","a","d","i","t","o">>,
      <<"n","e","m","i","c","o">> >>,
   appraisal_effects |->
     [novelty |-> 0, pleasantness |-> -700, goal_relevance |-> 0,
      goal_conduciveness |-> -800, urgency |-> 600, control |-> 0, power |-> 400,
      adjustment |-> 0, internal_standards |-> 0, external_standards |-> 0],
   system_activation |-> "rage"]

FearPattern ==
  [keywords |-> <<
      <<"d","a","n","g","e","r">>, <<"t","h","r","e","a","t">>, <<"a","f","r","a","i","d">>,
      <<"s","c","a","r","e","d">>, <<"t","e","r","r","i","f","i","e","d">>,
      <<"a","t","t","a","c","k">>, <<"e","n","e","m","y">>, <<"d","e","a","t","h">>,
      <<"k","i","l","l">>, <<"d","e","s","t","r","o","y">>, <<"m","o","n","s","t","e","r">>,
      <<"d","a","r","k">>, <<"p","e","r","i","c","o","l","o">>, <<"p","a","u","r","a">>,
      <<"m","i","n","a","c","c","i","a">>, <<"m","o","r","t","e">>, <<"a","t","t","a","c","c","o">> >>,
   appraisal_effects |->
     [novelty |-> 0, pleasantness |-> -800, goal_relevance |-> 0,
      goal_conduciveness |-> -600, urgency |-> 800, control |-> -500, power |-> 0,
      adjustment |-> 0, internal_standards |-> 0, external_standards |-> 0],
   system_activation |-> "fear"]

\* the Care pattern triggering the LUST system
CarePatternLust ==
  [keywords |-> <<
      <<"h","e","l","p">>, <<"p","r","o","t","e","c","t">>, <<"c","a","r","e">>,
      <<"l","o","v","e">>, <<"f","r","i","e","n","d">>, <<"f","a","m","i","l","y">>,
      <<"c","h","i","l","d">>, <<"s","a","f","e">>, <<"c","o","m","f","o","r","t">>,
      <<"s","u","p","p","o","r","t">>, <<"t","o","g","e","t","h","e","r">>, <<"t","r","u","s","t">>,
      <<"a","i","u","t","o">>, <<"p","r","o","t","e","g","g","e","r","e">>, <<"a","m","o","r","e">>,
      <<"a","m","i","c","o">>, <<"f","a","m","i","g","l","i","a">> >>,
   appraisal_effects |->
     [novelty |-> 0, pleasantness |-> 700, goal_relevance |-> 600,
      goal_conduciveness |-> 0, urgency |-> 0, control |-> 0, power |-> 0,
      adjustment |-> 0, internal_standards |-> 500, external_standards |-> 0],
   system_activation |-> "lust"]

CarePattern ==
  [keywords |-> <<
      <<"h","e","l","p">>, <<"p","r","o","t","e","c","t">>, <<"c","a","r","e">>,
      <<"l","o","v","e">>, <<"f","r","i","e","n","d">>, <<"f","a","m","i","l","y">>,
      <<"c","h","i","l","d">>, <<"s","a","f","e">>, <<"c","o","m","f","o","r","t">>,
      <<"s","u","p","p","o","r","t">>, <<"t","o","g","e","t","h","e","r">>, <<"t","r","u","s","t">>,
      <<"a","i","u","t","o">>, <<"p","r","o","t","e","g","g","e","r","e">>, <<"a","m","o","r","e">>,
      <<"a","m","i","c","o">>, <<"f","a","m","i","g","l","i","a">> >>,
   appraisal_effects |->
     [novelty |-> 0, pleasantness |-> 700, goal_relevance |-> 600,
      goal_conduciveness |-> 0, urgency |-> 0, control |-> 0, power |-> 0,
      adjustment |-> 0, internal_standards |-> 500, external_standards |-> 0],
   system_activation |-> "care"]

PanicGriefPattern ==
  [keywords |-> <<
      <<"l","o","s","t">>, <<"g","o","n","e">>, <<"d","i","e","d">>, <<"d","e","a","t","h">>,
      <<"m","i","s","s">>, <<"a","l","o","n","e">>, <<"l","o","n","e","l","y">>,
      <<"a","b","a","n","d","o","n","e","d">>, <<"l","e","f","t">>, <<"g","o","o","d","b","y","e">>,
      <<"n","e","v","e","r">>, <<"f","a","r","e","w","e","l","l">>, <<"p","e","r","s","o">>,
      <<"m","o","r","t","o">>, <<"s","o","l","o">>, <<"a","d","d","i","o">>,
      <<"a","b","b","a","n","d","o","n","a","t","o">> >>,
   appraisal_effects |->
     [novelty |-> 0, pleasantness |-> -800, goal_relevance |-> 0,
      goal_conduciveness |-> -700, urgency |-> 0, control |-> -600, power |-> 0,
      adjustment |-> -500, internal_standards |-> 0, external_standards |-> 0],
   system_activation |-> "panic_grief"]

PlayPattern ==
  [keywords |-> <<
      <<"f","u","n">>, <<"p","l","a","y">>, <<"g","a","m","e">>, <<"j","o","k","e">>,
      <<"l","a","u","g","h">>, <<"h","a","p","p","y">>, <<"j","o","y">>, <<"p","a","r","t","y">>,
      <<"c","e","l","e","b","r","a","t","e">>, <<"d","a","n","c","e">>, <<"s","i","n","g">>,
      <<"w","o","n","d","e","r","f","u","l">>, <<"a","m","a","z","i","n","g">>,
      <<"g","r","e","a","t">>, <<"f","a","n","t","a","s","t","i","c">>,
      <<"a","w","e","s","o","m","e">>, <<"b","r","i","l","l","i","a","n","t">>,
      <<"l","o","v","e","l","y">>, <<"b","e","a","u","t","i","f","u","l">>,
      <<"d","i","v","e","r","t","e","n","t","e">>, <<"g","i","o","c","o">>,
      <<"r","i","d","e","r","e">>, <<"f","e","l","i","c","e">>, <<"f","e","s","t","a">>,
      <<"b","e","l","l","o">>, <<"f","a","n","t","a","s","t","i","c","o">>,
      <<"m","e","r","a","v","i","g","l","i","o","s","o">>, <<"s","t","u","p","e","n","d","o">>,
      <<"m","a","g","n","i","f","i","c","o">> >>,
   appraisal_effects |->
     [novelty |-> 400, pleasantness |-> 900, goal_relevance |-> 0,
      goal_conduciveness |-> 600, urgency |-> 0, control |-> 500, power |-> 0,
      adjustment |-> 0, internal_standards |-> 0, external_standards |-> 0],
   system_activation |-> "play"]

GratitudePattern ==
  [keywords |-> <<
      <<"t","h","a","n","k">>, <<"g","r","a","t","e","f","u","l">>,
      <<"a","p","p","r","e","c","i","a","t","e">>, <<"t","h","a","n","k","s">>,
      <<"b","l","e","s","s","i","n","g">>, <<"g","r","a","z","i","e">>, <<"g","r","a","t","o">>,
      <<"a","p","p","r","e","z","z","o">>, <<"b","e","n","e","d","i","z","i","o","n","e">>,
      <<"g","e","n","t","i","l","e">>, <<"k","i","n","d">>, <<"g","e","n","e","r","o","u","s">>,
      <<"t","h","o","u","g","h","t","f","u","l">> >>,
   appraisal_effects |->
     [novelty |-> 0, pleasantness |-> 800, goal_relevance |-> 0,
      goal_conduciveness |-> 500, urgency |-> 0, control |-> 0, power |-> 0,
      adjustment |-> 0, internal_standards |-> 400, external_standards |-> 600],
   system_activation |-> "care"]

HopePattern ==
  [keywords |-> <<
      <<"h","o","p","e">>, <<"m","a","y","b","e">>, <<"p","o","s","s","i","b","l","e">>,
      <<"f","u","t","u","r","e">>, <<"b","e","t","t","e","r">>, <<"t","o","m","o","r","r","o","w">>,
      <<"c","h","a","n","c","e">>, <<"o","p","p","o","r","t","u","n","i","t","y">>,
      <<"d","r","e","a","m">>, <<"w","i","s","h">>, <<"s","p","e","r","a","n","z","a">>,
      <<"f","o","r","s","e">>, <<"f","u","t","u","r","o">>, <<"d","o","m","a","n","i">>,
      <<"s","o","g","n","o">> >>,
   appraisal_effects |->
     [novelty |-> 0, pleasantness |-> 600, goal_relevance |-> 0,
      goal_conduciveness |-> 500, urgency |-> 0, control |-> 0, power |-> 0,
      adjustment |-> 500, internal_standards |-> 0, external_standards |-> 0],
   system_activation |-> "seeking"]

ShamePattern ==
  [keywords |-> <<
      <<"s","o","r","r","y">>, <<"a","p","o","l","o","g","i","z","e">>, <<"f","a","u","l","t">>,
      <<"m","i","s","t","a","k","e">>, <<"w","r","o","n","g">>, <<"f","a","i","l","e","d">>,
      <<"a","s","h","a","m","e","d">>, <<"e","m","b","a","r","r","a","s","s","e","d">>,
      <<"r","e","g","r","e","t">>, <<"s","c","u","s","a">>, <<"e","r","r","o","r","e">>,
      <<"s","b","a","g","l","i","a","t","o">>, <<"v","e","r","g","o","g","n","a">>,
      <<"c","o","l","p","a">> >>,
   appraisal_effects |->
     [novelty |-> 0, pleasantness |-> -500, goal_relevance |-> 0,
      goal_conduciveness |-> 0, urgency |-> 0, control |-> -300, power |-> 0,
      adjustment |-> 0, internal_standards |-> -600, external_standards |-> -500],
   system_activation |-> "none"]

PridePattern ==
  [keywords |-> <<
      <<"p","r","o","u","d">>, <<"a","c","c","o","m","p","l","i","s","h","e","d">>,
      <<"a","c","h","i","e","v","e","d">>, <<"s","u","c","c","e","s","s">>, <<"w","o","n">>,
      <<"v","i","c","t","o","r","y">>, <<"b","e","s","t">>, <<"e","x","c","e","l","l","e","n","t">>,
      <<"m","a","s","t","e","r","e","d">>, <<"h","e","r","o">>,
      <<"w","e","l","l"," ","d","o","n","e">>, <<"b","r","a","v","o">>,
      <<"o","r","g","o","g","l","i","o","s","o">>, <<"s","u","c","c","e","s","s","o">>,
      <<"v","i","t","t","o","r","i","a">>, <<"e","r","o","e">>, <<"c","a","m","p","i","o","n","e">>,
      <<"c","o","m","p","l","i","m","e","n","t","i">>, <<"b","r","a","v","i","s","s","i","m","o">> >>,
   appraisal_effects |->
     [novelty |-> 0, pleasantness |-> 800, goal_relevance |-> 0,
      goal_conduciveness |-> 0, urgency |-> 0, control |-> 600, power |-> 700,
      adjustment |-> 0, internal_standards |-> 800, external_standards |-> 0],
   system_activation |-> "play"]

SurprisePattern ==
  [keywords |-> <<
      <<"s","u","r","p","r","i","s","e">>, <<"u","n","e","x","p","e","c","t","e","d">>,
      <<"s","u","d","d","e","n">>, <<"s","h","o","c","k","i","n","g">>,
      <<"u","n","b","e","l","i","e","v","a","b","l","e">>, <<"w","o","w">>,
      <<"a","m","a","z","i","n","g">>, <<"i","n","c","r","e","d","i","b","l","e">>,
      <<"r","e","a","l","l","y">>, <<"s","o","r","p","r","e","s","a">>,
      <<"i","m","p","r","o","v","v","i","s","o">>, <<"i","n","c","r","e","d","i","b","i","l","e">>,
      <<"d","a","v","v","e","r","o">> >>,
   appraisal_effects |->
     [novelty |-> 900, pleasantness |-> 0, goal_relevance |-> 0,
      goal_conduciveness |-> 0, urgency |-> 400, control |-> 0, power |-> 0,
      adjustment |-> 0, internal_standards |-> 0, external_standards |-> 0],
   system_activation |-> "seeking"]

GreetingsPattern ==
  [keywords |-> <<
      <<"h","e","l","l","o">>, <<"h","i">>, <<"h","e","y">>,
      <<"g","o","o","d"," ","m","o","r","n","i","n","g">>,
      <<"g","o","o","d"," ","e","v","e","n","i","n","g">>, <<"g","r","e","e","t","i","n","g","s">>,
      <<"w","e","l","c","o","m","e">>, <<"n","i","c","e"," ","t","o"," ","m","e","e","t">>,
      <<"p","l","e","a","s","u","r","e">>, <<"g","o","o","d"," ","t","o"," ","s","e","e">>,
      <<"c","i","a","o">>, <<"s","a","l","v","e">>, <<"b","u","o","n","g","i","o","r","n","o">>,
      <<"b","u","o","n","a","s","e","r","a">>, <<"p","i","a","c","e","r","e">>,
      <<"b","e","n","v","e","n","u","t","o">>, <<"c","o","m","e"," ","s","t","a","i">>,
      <<"c","o","m","e"," ","v","a">> >>,
   appraisal_effects |->
     [novelty |-> 0, pleasantness |-> 600, goal_relevance |-> 0,
      goal_conduciveness |-> 300, urgency |-> 0, control |-> 0, power |-> 0,
      adjustment |-> 0, internal_standards |-> 0, external_standards |-> 400],
   system_activation |-> "play"]

ComplimentsPattern ==
  [keywords |-> <<
      <<"y","o","u","'","r","e"," ","g","r","e","a","t">>,
      <<"y","o","u","'","r","e"," ","a","m","a","z","i","n","g">>,
      <<"i","m","p","r","e","s","s","i","v","e">>, <<"a","d","m","i","r","e">>,
      <<"r","e","s","p","e","c","t">>, <<"w","i","s","e">>, <<"s","m","a","r","t">>,
      <<"c","l","e","v","e","r">>, <<"t","a","l","e","n","t","e","d">>,
      <<"s","k","i","l","l","e","d">>, <<"p","o","w","e","r","f","u","l">>,
      <<"s","t","r","o","n","g">>, <<"b","e","a","u","t","i","f","u","l">>,
      <<"m","a","g","n","i","f","i","c","e","n","t">>, <<"n","o","b","l","e">>,
      <<"s","e","i"," ","g","r","a","n","d","e">>,
      <<"s","e","i"," ","f","a","n","t","a","s","t","i","c","o">>, <<"a","m","m","i","r","o">>,
      <<"r","i","s","p","e","t","t","o">>, <<"s","a","g","g","i","o">>,
      <<"i","n","t","e","l","l","i","g","e","n","t","e">>, <<"b","r","a","v","o">>,
      <<"f","o","r","t","e">>, <<"p","o","t","e","n","t","e">> >>,
   appraisal_effects |->
     [novelty |-> 0, pleasantness |-> 850, goal_relevance |-> 0,
      goal_conduciveness |-> 0, urgency |-> 0, control |-> 0, power |-> 500,
      adjustment |-> 0, internal_standards |-> 700, external_standards |-> 600],
   system_activation |-> "play"]

AgreementPattern ==
  [keywords |-> <<
      <<"y","e","s">>, <<"a","g","r","e","e">>, <<"r","i","g","h","t">>, <<"t","r","u","e">>,
      <<"c","o","r","r","e","c","t">>, <<"e","x","a","c","t","l","y">>, <<"i","n","d","e","e","d">>,
      <<"a","b","s","o","l","u","t","e","l","y">>, <<"o","f"," ","c","o","u","r","s","e">>,
      <<"c","e","r","t","a","i","n","l","y">>, <<"s","ì">>, <<"g","i","u","s","t","o">>,
      <<"v","e","r","o">>, <<"e","s","a","t","t","o">>, <<"c","e","r","t","o">>,
      <<"c","e","r","t","a","m","e","n","t","e">>,
      <<"p","r","o","p","r","i","o"," ","c","o","s","ì">>,
      <<"h","a","i"," ","r","a","g","i","o","n","e">>, <<"c","o","n","c","o","r","d","o">> >>,
   appraisal_effects |->
     [novelty |-> 0, pleasantness |-> 500, goal_relevance |-> 0,
      goal_conduciveness |-> 400, urgency |-> 0, control |-> 0, power |-> 0,
      adjustment |-> 0, internal_standards |-> 0, external_standards |-> 300],
   system_activation |-> "care"]

InterestPattern ==
  [keywords |-> <<
      <<"t","e","l","l"," ","m","e"," ","m","o","r","e">>,
      <<"f","a","s","c","i","n","a","t","i","n","g">>, <<"i","n","t","r","i","g","u","i","n","g">>,
      <<"l","o","v","e"," ","t","o"," ","h","e","a","r">>,
      <<"w","a","n","t"," ","t","o"," ","k","n","o","w">>,
      <<"s","o","u","n","d","s"," ","g","o","o","d">>,
      <<"s","o","u","n","d","s"," ","g","r","e","a","t">>, <<"e","x","c","i","t","i","n","g">>,
      <<"r","a","c","c","o","n","t","a","m","i">>,
      <<"a","f","f","a","s","c","i","n","a","n","t","e">>,
      <<"i","n","t","e","r","e","s","s","a","n","t","e">>,
      <<"v","o","r","r","e","i"," ","s","a","p","e","r","e">>, <<"m","i"," ","p","i","a","c","e">>,
      <<"c","h","e"," ","b","e","l","l","o">>,
      <<"e","n","t","u","s","i","a","s","m","a","n","t","e">> >>,
   appraisal_effects |->
     [novelty |-> 500, pleasantness |-> 600, goal_relevance |-> 500,
      goal_conduciveness |-> 400, urgency |-> 0, control |-> 0, power |-> 0,
      adjustment |-> 0, internal_standards |-> 0, external_standards |-> 0],
   system_activation |-> "seeking"]

AdventurePattern ==
  [keywords |-> <<
      <<"a","d","v","e","n","t","u","r","e">>, <<"q","u","e","s","t">>,
      <<"j","o","u","r","n","e","y">>, <<"m","i","s","s","i","o","n">>,
      <<"l","e","t","'","s"," ","g","o">>, <<"r","e","a","d","y">>, <<"b","r","a","v","e">>,
      <<"c","o","u","r","a","g","e">>, <<"t","o","g","e","t","h","e","r">>,
      <<"a","l","l","i","e","s">>, <<"a","v","v","e","n","t","u","r","a">>,
      <<"m","i","s","s","i","o","n","e">>, <<"v","i","a","g","g","i","o">>,
      <<"a","n","d","i","a","m","o">>, <<"p","r","o","n","t","i">>,
      <<"c","o","r","a","g","g","i","o">>, <<"i","n","s","i","e","m","e">>,
      <<"a","l","l","e","a","t","i">>, <<"c","o","m","p","a","g","n","i">> >>,
   appraisal_effects |->
     [novelty |-> 0, pleasantness |-> 700, goal_relevance |-> 700,
      goal_conduciveness |-> 600, urgency |-> 0, control |-> 0, power |-> 500,
      adjustment |-> 0, internal_standards |-> 0, external_standards |-> 0],
   system_activation |-> "seeking"]

PeacePattern ==
  [keywords |-> <<
      <<"p","e","a","c","e">>, <<"c","a","l","m">>, <<"q","u","i","e","t">>, <<"r","e","s","t">>,
      <<"r","e","l","a","x">>, <<"s","e","r","e","n","e">>, <<"t","r","a","n","q","u","i","l">>,
      <<"p","a","c","e">>, <<"c","a","l","m","a">>, <<"t","r","a","n","q","u","i","l","l","o">>,
      <<"r","i","p","o","s","o">>, <<"s","e","r","e","n","o">>,
      <<"r","i","l","a","s","s","a","n","t","e">>, <<"q","u","i","e","t","e">>,
      <<"a","r","m","o","n","i","a">> >>,
   appraisal_effects |->
     [novelty |-> 0, pleasantness |-> 600, goal_relevance |-> 0,
      goal_conduciveness |-> 0, urgency |-> -400, control |-> 500, power |-> 0,
      adjustment |-> 500, internal_standards |-> 0, external_standards |-> 0],
   system_activation |-> "care"]

StoriesPattern ==
  [keywords |-> <<
      <<"s","t","o","r","y">>, <<"t","a","l","e">>, <<"l","e","g","e","n","d">>,
      <<"o","n","c","e"," ","u","p","o","n">>, <<"l","o","n","g"," ","a","g","o">>,
      <<"t","e","l","l">>, <<"s","t","o","r","i","a">>, <<"r","a","c","c","o","n","t","o">>,
      <<"l","e","g","g","e","n","d","a">>,
      <<"c","'","e","r","a"," ","u","n","a"," ","v","o","l","t","a">>, <<"n","a","r","r","a">>,
      <<"r","a","c","c","o","n","t","a">> >>,
   appraisal_effects |->
     [novelty |-> 600, pleasantness |-> 500, goal_relevance |-> 400,
      goal_conduciveness |-> 0, urgency |-> 0, control |-> 0, power |-> 0,
      adjustment |-> 0, internal_standards |-> 0, external_standards |-> 0],
   system_activation |-> "seeking"]

APPRAISAL_PATTERNS ==
  <<SeekingPattern, RagePattern, FearPattern, CarePattern,
    PanicGriefPattern, PlayPattern, GratitudePattern, HopePattern,
    ShamePattern, PridePattern, SurprisePattern, GreetingsPattern,
    ComplimentsPattern, AgreementPattern, InterestPattern, AdventurePattern,
    PeacePattern, StoriesPattern>>
\* ------------------------------------------------------------------
\* Text
\* ------------------------------------------------------------------
UpperCase ==
  <<"A","B","C","D","E","F","G","H","I","J","K","L","M",
    "N","O","P","Q","R","S","T","U","V","W","X","Y","Z">>

LowerCase ==
  <<"a","b","c","d","e","f","g","h","i","j","k","l","m",
    "n","o","p","q","r","s","t","u","v","w","x","y","z">>

\* str.lower() on one character
LowerChar(c) ==
  IF \E i \in DOMAIN UpperCase : UpperCase[i] = c
  THEN LowerCase[CHOOSE i \in DOMAIN UpperCase : UpperCase[i] = c]
  ELSE c

\* message.lower()
Lower(message) == [i \in DOMAIN message |-> LowerChar(message[i])]

\* kw in text: kw occurs as a contiguous substring
Contains(kw, text) ==
  \E start \in 0..(Len(text) - Len(kw)) :
    \A j \in 1..Len(kw) : text[start + j] = kw[j]

\* the number of places of text at which kw occurs
Occurrences(kw, text) ==
  Cardinality({start \in 0..(Len(text) - Len(kw)) :
                 \A j \in 1..Len(kw) : text[start + j] = kw[j]})

RECURSIVE SumOccurrences(_, _, _)
SumOccurrences(i, keywords, text) ==
  IF i > Len(keywords) THEN 0
  ELSE Occurrences(keywords[i], text) + SumOccurrences(i + 1, keywords, text)

\* Matches adding one for every occurrence of every keyword
MatchesOccurrences(pattern, message_lower) == SumOccurrences(1, pattern.keywords, message_lower)

\* sum(1 for kw in pattern.keywords if kw in message_lower)
Matches(pattern, message_lower) ==
  Cardinality({i \in DOMAIN pattern.keywords : Contains(pattern.keywords[i], message_lower)})

\* "Thank you so much, I am so grateful"
ScenarioAText ==
  <<"T","h","a","n","k"," ","y","o","u"," ","s","o"," ","m","u","c","h",","," ","I"," ","a","m"," ",
    "s","o"," ","g","r","a","t","e","f","u","l">>

\* "I am so angry, this is unfair and unjust"
ScenarioBText ==
  <<"I"," ","a","m"," ","s","o"," ","a","n","g","r","y",","," ","t","h","i","s"," ","i","s"," ","u",
    "n","f","a","i","r"," ","a","n","d"," ","u","n","j","u","s","t">>

\* "Mmm... Ok."
NoMatchText ==
  <<"M","m","m",".",".","."," ","O","k",".">>

\* "Danger! The enemy will attack"
FearText ==
  <<"D","a","n","g","e","r","!"," ","T","h","e"," ","e","n","e","m","y"," ","w","i","l","l"," ","a",
    "t","t","a","c","k">>

\* "What a wonderful, amazing, fantastic game"
PlayText ==
  <<"W","h","a","t"," ","a"," ","w","o","n","d","e","r","f","u","l",","," ","a","m","a","z","i","n",
    "g",","," ","f","a","n","t","a","s","t","i","c"," ","g","a","m","e">>

\* "Help! Danger! The enemy will attack"
FearHelpText ==
  <<"H","e","l","p","!"," ","D","a","n","g","e","r","!"," ","T","h","e"," ","e","n","e","m","y"," ",
    "w","i","l","l"," ","a","t","t","a","c","k">>

\* "Thank you, thank you, thank you"
RepeatText ==
  <<"T","h","a","n","k"," ","y","o","u",","," ","t","h","a","n","k"," ","y","o","u",","," ","t","h",
    "a","n","k"," ","y","o","u">>
\* ------------------------------------------------------------------
\* Bounds and inputs of the model
\* ------------------------------------------------------------------
\* calls of appraise_message / update_affect / decay made on one instance
MaxSteps == 3

\* the clock stops advancing at MaxClock seconds
MaxClock == 600

\* seconds by which the clock advances between two calls
TickSeconds == 600

\* the messages given to appraise_message
Messages ==
  {<<>>, NoMatchText, ScenarioAText, ScenarioBText, FearText, PlayText, FearHelpText, RepeatText}

\* the explicit seconds_elapsed given to decay
ElapsedInputs == {0, 60, 600, 2400}

\* (baseline_valence, baseline_arousal, baseline_dominance) given to the factory:
\* the defaults, a corner of the cube, and two triples that leave [-1, 1]
BaselineInputs ==
  {<<150, 100, 0>>, <<-1000, 1000, -1000>>, <<1500, 100, 0>>, <<150, -1200, 2000>>}

\* emotional_inertia given to the factory; 1500 and -100 leave [0, 1]
InertiaInputs == {0, 250, 1000, 1500, -100}

\* ------------------------------------------------------------------
\* The pattern matches of the messages
\* ------------------------------------------------------------------
\* matches of every pattern of the table, in table order, for one message
PatternMatches(message) ==
  LET message_lower == Lower(message)
  IN  [i \in DOMAIN APPRAISAL_PATTERNS |-> Matches(APPRAISAL_PATTERNS[i], message_lower)]

\* PatternMatches depends on the message alone; tabulated for the messages used
MatchTable == [m \in Messages |-> PatternMatches(m)]

\* ------------------------------------------------------------------
\* AdvancedEmotionalState
\* ------------------------------------------------------------------
\* an Optional value: <<>> is None, <<x>> is x
None == <<>>

Some(x) == <<x>>

\* {s.value: 0.0 for s in AffectiveSystem}
ZeroActivations == [s \in Systems |-> 0]

\* the fields of an instance
StateRecord(character_id, current_affect, baseline_affect, system_activations, emotional_inertia, now) ==
  [character_id |-> character_id,
   current_affect |-> current_affect,
   baseline_affect |-> baseline_affect,
   system_activations |-> system_activations,
   last_appraisal |-> None,
   emotional_inertia |-> emotional_inertia,
   last_update |-> now,
   affect_history |-> <<>>,
   max_history |-> 50]

\* AdvancedEmotionalState(**data): the only validated field is
\* emotional_inertia (ge=0.0, le=1.0); an empty system_activations (None here)
\* becomes the all-zero map.  ok = FALSE is the ValidationError.
AdvancedEmotionalState(character_id, current_affect, baseline_affect, system_activations, emotional_inertia, now) ==
  IF emotional_inertia < 0 \/ emotional_inertia > Scale
  THEN [ok |-> FALSE,
        state |-> StateRecord(character_id, AffectiveDimensions(0, 0, 0),
                              AffectiveDimensions(0, 0, 0), ZeroActivations, 0, 0)]
  ELSE [ok |-> TRUE,
        state |-> StateRecord(character_id, current_affect, baseline_affect,
                              IF system_activations = None THEN ZeroActivations
                              ELSE system_activations[1],
                              emotional_inertia, now)]

\* the factory: one baseline object is both current_affect and baseline_affect
create_advanced_emotional_state(character_id, baseline_valence, baseline_arousal, baseline_dominance, emotional_inertia, now) ==
  LET baseline == AffectiveDimensions(baseline_valence, baseline_arousal, baseline_dominance)
  IN  AdvancedEmotionalState(character_id, baseline, baseline, None, emotional_inertia, now)

\* _activate_system starting from 0 at every call, the current value forgotten
_activate_system_reset(system_activations, emotional_inertia, system, intensity) ==
  LET new_value == Mul(intensity, Scale - emotional_inertia)
  IN  [system_activations EXCEPT ![system] = Max(0, Min(Scale, new_value))]

\* _activate_system weighting the step by inertia instead of 1 - inertia
_activate_system_by_inertia(system_activations, emotional_inertia, system, intensity) ==
  LET current == system_activations[system]
      new_value == current + Mul(intensity - current, emotional_inertia)
  IN  [system_activations EXCEPT ![system] = Max(0, Min(Scale, new_value))]

\* new_value = current + (intensity - current) * (1 - inertia), clamped to [0, 1]
_activate_system(system_activations, emotional_inertia, system, intensity) ==
  LET current == system_activations[system]
      new_value == current + Mul(intensity - current, Scale - emotional_inertia)
  IN  [system_activations EXCEPT ![system] = Max(0, Min(Scale, new_value))]

\* any(effects.get(k, 0) < -0.3 for k in ['pleasantness', 'goal_conduciveness'])
IsNegativePattern(pattern) ==
  \/ pattern.appraisal_effects.pleasantness < -300
  \/ pattern.appraisal_effects.goal_conduciveness < -300

\* PatternWeight without the negativity amplification
PatternWeightUnamplified(pattern, matches) == Min(Scale, matches * 300)

\* weight = min(1.0, matches * 0.3), times 1.8 for a negative pattern
PatternWeight(pattern, matches) ==
  LET weight == Min(Scale, matches * 300)
  IN  IF IsNegativePattern(pattern) THEN Mul(weight, 1800) ELSE weight

\* SystemWeight without the factor of the negative systems
SystemWeightAllAlike(pattern, weight) == Mul(weight, 500)

\* system_weight = weight * 0.5, times 1.5 for rage, fear and panic_grief
SystemWeight(pattern, weight) ==
  LET system_weight == Mul(weight, 500)
  IN  IF pattern.system_activation \in {"rage", "fear", "panic_grief"}
      THEN Mul(system_weight, 1500)
      ELSE system_weight

\* AddEffects setting each dim to effect * weight, the value before it lost
AddEffectsOverwrite(appraisal, pattern, weight) ==
  [dim \in DOMAIN appraisal |-> Mul(pattern.appraisal_effects[dim], weight)]

\* setattr(appraisal, dim, current + effect * weight) for every dim of the pattern
AddEffects(appraisal, pattern, weight) ==
  [dim \in DOMAIN appraisal |->
     appraisal[dim] + Mul(pattern.appraisal_effects[dim], weight)]

\* AppraiseLoop applying every pattern, matched or not (matches >= 0)
RECURSIVE AppraiseLoopEveryPattern(_, _, _, _)
AppraiseLoopEveryPattern(i, matches, emotional_inertia, acc) ==
  IF i > Len(APPRAISAL_PATTERNS) THEN acc
  ELSE LET pattern == APPRAISAL_PATTERNS[i]
           weight == PatternWeight(pattern, matches[i])
       IN  IF matches[i] >= 0
           THEN AppraiseLoopEveryPattern(i + 1, matches, emotional_inertia,
                  [appraisal |-> AddEffects(acc.appraisal, pattern, weight),
                   system_activations |->
                     IF pattern.system_activation # "none"
                     THEN _activate_system(acc.system_activations, emotional_inertia,
                                           pattern.system_activation,
                                           SystemWeight(pattern, weight))
                     ELSE acc.system_activations])
           ELSE AppraiseLoopEveryPattern(i + 1, matches, emotional_inertia, acc)

\* the loop over APPRAISAL_PATTERNS from pattern i on: acc holds the appraisal
\* accumulated so far and the system activations as left by the patterns before i
RECURSIVE AppraiseLoop(_, _, _, _)
AppraiseLoop(i, matches, emotional_inertia, acc) ==
  IF i > Len(APPRAISAL_PATTERNS) THEN acc
  ELSE LET pattern == APPRAISAL_PATTERNS[i]
           weight == PatternWeight(pattern, matches[i])
       IN  IF matches[i] > 0
           THEN AppraiseLoop(i + 1, matches, emotional_inertia,
                  [appraisal |-> AddEffects(acc.appraisal, pattern, weight),
                   system_activations |->
                     IF pattern.system_activation # "none"
                     THEN _activate_system(acc.system_activations, emotional_inertia,
                                           pattern.system_activation,
                                           SystemWeight(pattern, weight))
                     ELSE acc.system_activations])
           ELSE AppraiseLoop(i + 1, matches, emotional_inertia, acc)

\* max(-1, min(1, value)) on the ten fields
ClampAppraisal(appraisal) ==
  [dim \in DOMAIN appraisal |-> Max(-Scale, Min(Scale, appraisal[dim]))]

\* _record_state trimming to the oldest max_history entries
_record_state_keep_oldest(self, now) ==
  LET entry == [timestamp |-> now,
                valence |-> self.current_affect.valence,
                arousal |-> self.current_affect.arousal,
                dominance |-> self.current_affect.dominance,
                systems |-> self.system_activations]
      appended == Append(self.affect_history, entry)
  IN  [self EXCEPT !.affect_history =
         IF Len(appended) > self.max_history
         THEN SubSeq(appended, 1, self.max_history)
         ELSE appended]

\* append the snapshot; keep the last max_history entries
_record_state(self, now) ==
  LET entry == [timestamp |-> now,
                valence |-> self.current_affect.valence,
                arousal |-> self.current_affect.arousal,
                dominance |-> self.current_affect.dominance,
                systems |-> self.system_activations]
      appended == Append(self.affect_history, entry)
  IN  [self EXCEPT !.affect_history =
         IF Len(appended) > self.max_history
         THEN SubSeq(appended, Len(appended) - self.max_history + 1, Len(appended))
         ELSE appended]

\* InfluenceLoop taking a system whose activation is exactly 0.1 as active
RECURSIVE InfluenceLoopAtThreshold(_, _, _)
InfluenceLoopAtThreshold(i, system_activations, sum) ==
  IF i > Len(AffectiveSystem) THEN sum
  ELSE LET activation == system_activations[AffectiveSystem[i]]
           system_dims == SYSTEM_DIMENSIONS[AffectiveSystem[i]]
       IN  IF activation >= 100
           THEN InfluenceLoopAtThreshold(i + 1, system_activations,
                  [valence |-> sum.valence + system_dims.valence * activation,
                   arousal |-> sum.arousal + system_dims.arousal * activation,
                   dominance |-> sum.dominance + system_dims.dominance * activation,
                   total_activation |-> sum.total_activation + activation])
           ELSE InfluenceLoopAtThreshold(i + 1, system_activations, sum)

\* the loop over system_activations.items() from system i on: sum holds the
\* activation-weighted coordinates (in units of 1/Scale^2) and the total
RECURSIVE InfluenceLoop(_, _, _)
InfluenceLoop(i, system_activations, sum) ==
  IF i > Len(AffectiveSystem) THEN sum
  ELSE LET activation == system_activations[AffectiveSystem[i]]
           system_dims == SYSTEM_DIMENSIONS[AffectiveSystem[i]]
       IN  IF activation > 100
           THEN InfluenceLoop(i + 1, system_activations,
                  [valence |-> sum.valence + system_dims.valence * activation,
                   arousal |-> sum.arousal + system_dims.arousal * activation,
                   dominance |-> sum.dominance + system_dims.dominance * activation,
                   total_activation |-> sum.total_activation + activation])
           ELSE InfluenceLoop(i + 1, system_activations, sum)

\* system_influence: the weighted sum divided by total_activation when that is > 0
SystemInfluence(system_activations) ==
  LET sum == InfluenceLoop(1, system_activations,
               [valence |-> 0, arousal |-> 0, dominance |-> 0, total_activation |-> 0])
  IN  IF sum.total_activation > 0
      THEN AffectiveDimensions(TDiv(sum.valence, sum.total_activation),
                               TDiv(sum.arousal, sum.total_activation),
                               TDiv(sum.dominance, sum.total_activation))
      ELSE AffectiveDimensions(0, 0, 0)

\* combined_target = target.blend(system_influence, 0.4)
CombinedTarget(self, appraisal) ==
  blend(to_dimensions(appraisal), SystemInfluence(self.system_activations), 400)

\* TransitionResistance without the branch for a negative state pulled up
TransitionResistanceNoContamination(self, combined_target) ==
  LET transition_resistance == Scale - self.emotional_inertia
  IN  IF self.current_affect.valence > 300 /\ combined_target.valence < 0
      THEN Mul(transition_resistance, 1300)
      ELSE transition_resistance

\* TransitionResistance with the first valence test on the wrong side of -0.3
TransitionResistanceWrongSide(self, combined_target) ==
  LET transition_resistance == Scale - self.emotional_inertia
  IN  IF self.current_affect.valence > -300 /\ combined_target.valence > 0
      THEN Mul(transition_resistance, 400)
      ELSE IF self.current_affect.valence > 300 /\ combined_target.valence < 0
           THEN Mul(transition_resistance, 1300)
           ELSE transition_resistance

\* 1 - inertia, times 0.4 for a negative state pulled up, times 1.3 for a
\* positive state pulled down
TransitionResistance(self, combined_target) ==
  LET transition_resistance == Scale - self.emotional_inertia
  IN  IF self.current_affect.valence < -300 /\ combined_target.valence > 0
      THEN Mul(transition_resistance, 400)
      ELSE IF self.current_affect.valence > 300 /\ combined_target.valence < 0
           THEN Mul(transition_resistance, 1300)
           ELSE transition_resistance

\* update_affect writing the blend into the object that the factory gave as
\* both current_affect and baseline_affect
update_affect_in_place(self, appraisal, now) ==
  LET combined_target == CombinedTarget(self, appraisal)
      transition_resistance == TransitionResistance(self, combined_target)
      blended == blend(self.current_affect, combined_target,
                       Min(Scale, transition_resistance))
  IN  _record_state([self EXCEPT !.current_affect = blended,
                                 !.baseline_affect =
                                    IF self.baseline_affect = self.current_affect
                                    THEN blended ELSE @], now)

update_affect(self, appraisal, now) ==
  LET combined_target == CombinedTarget(self, appraisal)
      transition_resistance == TransitionResistance(self, combined_target)
      blended == blend(self.current_affect, combined_target,
                       Min(Scale, transition_resistance))
  IN  _record_state([self EXCEPT !.current_affect = blended], now)

\* appraise_message adding the effects to the appraisal kept from the call before
appraise_message_onto_last(self, message) ==
  LET done == AppraiseLoop(1, MatchTable[message], self.emotional_inertia,
                           [appraisal |-> IF self.last_appraisal = None THEN AppraisalResult
                                          ELSE self.last_appraisal[1],
                            system_activations |-> self.system_activations])
      appraisal == ClampAppraisal(done.appraisal)
  IN  [state |-> [self EXCEPT !.system_activations = done.system_activations,
                              !.last_appraisal = Some(appraisal)],
       ret |-> appraisal]

\* appraise_message integrating its own result into the affect
appraise_message_and_update(self, message) ==
  LET done == AppraiseLoop(1, MatchTable[message], self.emotional_inertia,
                           [appraisal |-> AppraisalResult,
                            system_activations |-> self.system_activations])
      appraisal == ClampAppraisal(done.appraisal)
  IN  [state |-> update_affect([self EXCEPT !.system_activations = done.system_activations,
                                            !.last_appraisal = Some(appraisal)],
                               appraisal, self.last_update),
       ret |-> appraisal]

\* appraise_message: the state it leaves and the AppraisalResult it returns
appraise_message(self, message) ==
  LET done == AppraiseLoop(1, MatchTable[message], self.emotional_inertia,
                           [appraisal |-> AppraisalResult,
                            system_activations |-> self.system_activations])
      appraisal == ClampAppraisal(done.appraisal)
  IN  [state |-> [self EXCEPT !.system_activations = done.system_activations,
                              !.last_appraisal = Some(appraisal)],
       ret |-> appraisal]

\* the base rate taken per second instead of per minute
BaseDecayRatePerSecond(seconds_elapsed) == 50 * seconds_elapsed

\* base_decay_rate = 0.05 * (seconds_elapsed / 60.0)
BaseDecayRate(seconds_elapsed) == TDiv(50 * seconds_elapsed, 60)

\* DecayRate taking valence exactly -0.2 as negative and exactly 0.2 as positive
DecayRateInclusive(current_affect, seconds_elapsed) ==
  LET base_decay_rate == BaseDecayRate(seconds_elapsed)
      arousal_factor == Scale + Mul(Max(0, current_affect.arousal), 500)
  IN  IF current_affect.valence <= -200
      THEN TDiv(base_decay_rate * 400, arousal_factor)
      ELSE IF current_affect.valence >= 200
           THEN Mul(base_decay_rate, 1500)
           ELSE base_decay_rate

\* the rate chosen from the valence and arousal of the current affect
DecayRate(current_affect, seconds_elapsed) ==
  LET base_decay_rate == BaseDecayRate(seconds_elapsed)
      arousal_factor == Scale + Mul(Max(0, current_affect.arousal), 500)
  IN  IF current_affect.valence < -200
      THEN TDiv(base_decay_rate * 400, arousal_factor)
      ELSE IF current_affect.valence > 200
           THEN Mul(base_decay_rate, 1500)
           ELSE base_decay_rate

\* SystemDecayFactor with the factors of the negative and the nurturing systems exchanged
SystemDecayFactorExchanged(system, decay_rate) ==
  IF system \in {"rage", "fear", "panic_grief"}
  THEN Scale - decay_rate
  ELSE IF system \in {"play", "care"}
       THEN Scale - Mul(decay_rate, 500)
       ELSE Scale - Mul(decay_rate, 800)

\* the factor by which decay multiplies the activation of a system
SystemDecayFactor(system, decay_rate) ==
  IF system \in {"rage", "fear", "panic_grief"}
  THEN Scale - Mul(decay_rate, 500)
  ELSE IF system \in {"play", "care"}
       THEN Scale - decay_rate
       ELSE Scale - Mul(decay_rate, 800)

\* decay taking a missing seconds_elapsed as 0, the stored time not read
decay_ignoring_stored_time(self, seconds_elapsed, now) ==
  LET elapsed == IF seconds_elapsed = None THEN 0 ELSE seconds_elapsed[1]
      decay_rate == DecayRate(self.current_affect, elapsed)
  IN  [self EXCEPT
         !.current_affect = decay_toward(self.current_affect, self.baseline_affect, decay_rate),
         !.system_activations =
            [system \in Systems |->
               Mul(self.system_activations[system], SystemDecayFactor(system, decay_rate))],
         !.last_update = now]

\* decay: seconds_elapsed is None or Some(seconds)
decay(self, seconds_elapsed, now) ==
  LET elapsed == IF seconds_elapsed = None THEN now - self.last_update
                 ELSE seconds_elapsed[1]
      decay_rate == DecayRate(self.current_affect, elapsed)
  IN  [self EXCEPT
         !.current_affect = decay_toward(self.current_affect, self.baseline_affect, decay_rate),
         !.system_activations =
            [system \in Systems |->
               Mul(self.system_activations[system], SystemDecayFactor(system, decay_rate))],
         !.last_update = now]

\* ------------------------------------------------------------------
\* State of the model
\* ------------------------------------------------------------------
Instances == {1, 2}

VARIABLES
  obj,      \* obj[i]: the fields of instance i
  made,     \* made[i]: "ok" once constructed, "rejected" after a ValidationError, "none"
  last,     \* last[i]: the last call on instance i: op, arg, the fields before it, ret
  clock,    \* datetime.now(), in seconds
  steps,    \* steps[i]: the calls made on instance i since construction
  running   \* running[t]: the call thread t is in the middle of, its position and locals

vars == <<obj, made, last, clock, steps, running>>

\* the fields shown for an instance that does not exist
NoState ==
  StateRecord("", AffectiveDimensions(0, 0, 0), AffectiveDimensions(0, 0, 0),
              ZeroActivations, 0, 0)

NoCall == [op |-> "none", arg |-> None, pre |-> NoState, ret |-> None]

\* no thread is in the middle of a call: every call runs from start to end in one step
NoThreads == <<>>

\* instance 1 is whatever the factory makes of its arguments; instance 2 is absent
Init ==
  \E b \in BaselineInputs, inertia \in InertiaInputs :
    LET made1 == create_advanced_emotional_state("c1", b[1], b[2], b[3], inertia, 0)
    IN  /\ obj = [i \in Instances |-> IF i = 1 THEN made1.state ELSE NoState]
        /\ made = [i \in Instances |->
                     IF i = 1 THEN (IF made1.ok THEN "ok" ELSE "rejected") ELSE "none"]
        /\ last = [i \in Instances |->
                     IF i = 1
                     THEN [op |-> "create", arg |-> <<b[1], b[2], b[3], inertia>>,
                           pre |-> NoState,
                           ret |-> IF made1.ok THEN "ok" ELSE "ValidationError"]
                     ELSE NoCall]
        /\ clock = 0
        /\ steps = [i \in Instances |-> 0]
        /\ running = NoThreads

\* time passes between two calls
Tick ==
  /\ clock < MaxClock
  /\ clock' = clock + TickSeconds
  /\ UNCHANGED <<obj, made, last, steps, running>>

Callable(i) == made[i] = "ok" /\ steps[i] < MaxSteps

\* Store with system_activations one dict shared by all the instances
StoreShared(i, state) ==
  [j \in Instances |->
     IF j = i THEN state
     ELSE [obj[j] EXCEPT !.system_activations = state.system_activations]]

\* the calls write attributes of self only: instance i gets the new fields
Store(i, state) == [obj EXCEPT ![i] = state]

\* one more call made on instance i
Count(i) == [steps EXCEPT ![i] = @ + 1]

\* appraise_message(message) on instance i
DoAppraise(i, message) ==
  /\ LET r == appraise_message(obj[i], message)
     IN  /\ obj' = Store(i, r.state)
         /\ last' = [last EXCEPT ![i] =
                       [op |-> "appraise_message", arg |-> message, pre |-> obj[i],
                        ret |-> r.ret]]
  /\ steps' = Count(i)
  /\ UNCHANGED <<made, clock, running>>

\* update_affect(appraisal) on instance i
DoUpdateAffect(i, appraisal) ==
  /\ obj' = Store(i, update_affect(obj[i], appraisal, clock))
  /\ last' = [last EXCEPT ![i] =
                [op |-> "update_affect", arg |-> appraisal, pre |-> obj[i], ret |-> None]]
  /\ steps' = Count(i)
  /\ UNCHANGED <<made, clock, running>>

\* decay(seconds_elapsed) on instance i
DoDecay(i, seconds_elapsed) ==
  /\ obj' = Store(i, decay(obj[i], seconds_elapsed, clock))
  /\ last' = [last EXCEPT ![i] =
                [op |-> "decay", arg |-> seconds_elapsed, pre |-> obj[i], ret |-> None]]
  /\ steps' = Count(i)
  /\ UNCHANGED <<made, clock, running>>

Appraise(i, message) == Callable(i) /\ DoAppraise(i, message)

UpdateAffect(i, appraisal) == Callable(i) /\ DoUpdateAffect(i, appraisal)

Decay(i, seconds_elapsed) == Callable(i) /\ DoDecay(i, seconds_elapsed)

\* the appraisals a caller hands to update_affect: the one appraise_message
\* returned last, or a fresh AppraisalResult()
AppraisalArgs(i) ==
  {AppraisalResult} \cup {obj[i].last_appraisal[k] : k \in DOMAIN obj[i].last_appraisal}

Next ==
  \/ Tick
  \/ \E message \in Messages : Appraise(1, message)
  \/ \E appraisal \in AppraisalArgs(1) : UpdateAffect(1, appraisal)
  \/ \E seconds \in ElapsedInputs : Decay(1, Some(seconds))
  \/ Decay(1, None)

Spec == Init /\ [][Next]_vars

\* ------------------------------------------------------------------
\* Two instances driven through the same calls
\* ------------------------------------------------------------------
\* calls made on each instance of the pair
MaxPairSteps == 1

\* emotional_inertia shared by the two instances
PairInertiaInputs == {0, 250, 500, 1000}

\* current valence of instance 1 and of instance 2
PairValenceInputs == {<<-500, 500>>, <<-500, 0>>, <<-310, 310>>, <<-1000, 1000>>}

\* current arousal and dominance shared by the two instances
PairArousalInputs == {-500, 100, 800}

PairDominanceInputs == {0, 600}

CareActive == [ZeroActivations EXCEPT !["care"] = 500]

RageActive == [ZeroActivations EXCEPT !["rage"] = 500]

\* seeking is at the 0.1 threshold and so takes no part in system_influence
MixedActive == [ZeroActivations EXCEPT !["fear"] = 800, !["play"] = 300, !["seeking"] = 100]

\* system activations of instance 1 and of instance 2: equal, or care against
\* rage, whose coordinates have opposite valence
PairActivationInputs ==
  {<<ZeroActivations, ZeroActivations>>, <<CareActive, CareActive>>,
   <<RageActive, RageActive>>, <<MixedActive, MixedActive>>, <<CareActive, RageActive>>}

Pleasant(pleasantness, goal_conduciveness) ==
  [AppraisalResult EXCEPT !.pleasantness = pleasantness,
                          !.goal_conduciveness = goal_conduciveness,
                          !.novelty = 300, !.control = 400]

\* the appraisals handed to update_affect on instance 1
PairAppraisalInputs ==
  {AppraisalResult, Pleasant(800, 800), Pleasant(1000, 600), Pleasant(200, 200),
   Pleasant(1000, 1000)}

\* the appraisal with the opposite valence target
MirrorValence(appraisal) ==
  [appraisal EXCEPT !.pleasantness = -appraisal.pleasantness,
                    !.goal_conduciveness = -appraisal.goal_conduciveness]

DefaultBaseline == AffectiveDimensions(150, 100, 0)

\* both instances are built by the constructor from the same data except for
\* the current valence and, in one case, the system activations
PairInit ==
  \E inertia \in PairInertiaInputs, v \in PairValenceInputs, a \in PairArousalInputs,
     d \in PairDominanceInputs, act \in PairActivationInputs :
    LET built == [i \in Instances |->
                    AdvancedEmotionalState(IF i = 1 THEN "c1" ELSE "c2",
                                           AffectiveDimensions(v[i], a, d),
                                           DefaultBaseline, Some(act[i]), inertia, 0)]
    IN  /\ obj = [i \in Instances |-> built[i].state]
        /\ made = [i \in Instances |-> IF built[i].ok THEN "ok" ELSE "rejected"]
        /\ last = [i \in Instances |->
                     [op |-> "construct", arg |-> None, pre |-> NoState, ret |-> "ok"]]
        /\ clock = 0
        /\ steps = [i \in Instances |-> 0]
        /\ running = NoThreads

PairCallable == \A i \in Instances : made[i] = "ok" /\ steps[i] < MaxPairSteps

\* update_affect on both instances, with appraisal[i] on instance i
PairUpdateAffect(appraisal) ==
  /\ PairCallable
  /\ obj' = [i \in Instances |-> update_affect(obj[i], appraisal[i], clock)]
  /\ last' = [i \in Instances |->
                [op |-> "update_affect", arg |-> appraisal[i], pre |-> obj[i], ret |-> None]]
  /\ steps' = [i \in Instances |-> steps[i] + 1]
  /\ UNCHANGED <<made, clock, running>>

\* decay on both instances with the same seconds_elapsed
PairDecay(seconds_elapsed) ==
  /\ PairCallable
  /\ obj' = [i \in Instances |-> decay(obj[i], seconds_elapsed, clock)]
  /\ last' = [i \in Instances |->
                [op |-> "decay", arg |-> seconds_elapsed, pre |-> obj[i], ret |-> None]]
  /\ steps' = [i \in Instances |-> steps[i] + 1]
  /\ UNCHANGED <<made, clock, running>>

PairNext ==
  \/ \E a1 \in PairAppraisalInputs : \E a2 \in {a1, MirrorValence(a1)} :
       PairUpdateAffect(<<a1, a2>>)
  \/ \E seconds \in ElapsedInputs : PairDecay(Some(seconds))

PairSpec == PairInit /\ [][PairNext]_vars

\* ------------------------------------------------------------------
\* Emotion labels and the read-only queries
\* ------------------------------------------------------------------
\* EMOTION_COORDINATES in the iteration order of the dict: label and coordinate
EMOTION_COORDINATES == <<
  [label |-> "excitement", coords |-> AffectiveDimensions(700, 800, 500)],
  [label |-> "joy", coords |-> AffectiveDimensions(800, 600, 400)],
  [label |-> "enthusiasm", coords |-> AffectiveDimensions(700, 700, 600)],
  [label |-> "delight", coords |-> AffectiveDimensions(800, 500, 300)],
  [label |-> "contentment", coords |-> AffectiveDimensions(600, -200, 300)],
  [label |-> "serenity", coords |-> AffectiveDimensions(700, -400, 400)],
  [label |-> "calm", coords |-> AffectiveDimensions(400, -500, 300)],
  [label |-> "peace", coords |-> AffectiveDimensions(600, -600, 500)],
  [label |-> "anger", coords |-> AffectiveDimensions(-600, 800, 600)],
  [label |-> "fear", coords |-> AffectiveDimensions(-800, 700, -600)],
  [label |-> "anxiety", coords |-> AffectiveDimensions(-500, 600, -400)],
  [label |-> "frustration", coords |-> AffectiveDimensions(-500, 600, -200)],
  [label |-> "panic", coords |-> AffectiveDimensions(-900, 900, -800)],
  [label |-> "sadness", coords |-> AffectiveDimensions(-600, -300, -300)],
  [label |-> "melancholy", coords |-> AffectiveDimensions(-400, -400, -200)],
  [label |-> "grief", coords |-> AffectiveDimensions(-800, 200, -600)],
  [label |-> "despair", coords |-> AffectiveDimensions(-900, -200, -800)],
  [label |-> "boredom", coords |-> AffectiveDimensions(-300, -600, -100)],
  [label |-> "love", coords |-> AffectiveDimensions(900, 400, 200)],
  [label |-> "compassion", coords |-> AffectiveDimensions(600, 200, 400)],
  [label |-> "pride", coords |-> AffectiveDimensions(700, 400, 700)],
  [label |-> "shame", coords |-> AffectiveDimensions(-700, 400, -600)],
  [label |-> "guilt", coords |-> AffectiveDimensions(-600, 300, -400)],
  [label |-> "contempt", coords |-> AffectiveDimensions(-500, 200, 600)],
  [label |-> "disgust", coords |-> AffectiveDimensions(-700, 300, 300)],
  [label |-> "envy", coords |-> AffectiveDimensions(-500, 400, -300)],
  [label |-> "jealousy", coords |-> AffectiveDimensions(-600, 600, -200)],
  [label |-> "gratitude", coords |-> AffectiveDimensions(800, 300, -100)],
  [label |-> "awe", coords |-> AffectiveDimensions(600, 500, -300)],
  [label |-> "curiosity", coords |-> AffectiveDimensions(400, 500, 300)],
  [label |-> "interest", coords |-> AffectiveDimensions(300, 400, 200)],
  [label |-> "surprise", coords |-> AffectiveDimensions(100, 700, -100)],
  [label |-> "confusion", coords |-> AffectiveDimensions(-200, 400, -300)],
  [label |-> "determination", coords |-> AffectiveDimensions(300, 600, 700)],
  [label |-> "hope", coords |-> AffectiveDimensions(600, 300, 200)],
  [label |-> "neutral", coords |-> AffectiveDimensions(0, 0, 0)] >>

\* the largest r with r * r <= n, searched between lo and hi
RECURSIVE ISqrtBetween(_, _, _)
ISqrtBetween(n, lo, hi) ==
  IF lo >= hi THEN lo
  ELSE LET mid == (lo + hi + 1) \div 2
       IN  IF mid * mid <= n THEN ISqrtBetween(n, mid, hi) ELSE ISqrtBetween(n, lo, mid - 1)

\* math.sqrt of a radicand in units of 1/Scale^2, in units of 1/Scale
ISqrt(n) == ISqrtBetween(n, 0, 8 * Scale)

\* distance_to: Euclidean distance in VAD space
distance_to(self, other) == ISqrt(DistanceSquared(self, other))

\* the loop of get_closest_emotion that lets a later label at the same
\* distance replace the earlier one
RECURSIVE ClosestLoopLastWins(_, _, _)
ClosestLoopLastWins(i, dimensions, best) ==
  IF i > Len(EMOTION_COORDINATES) THEN best
  ELSE LET radicand == DistanceSquared(dimensions, EMOTION_COORDINATES[i].coords)
       IN  IF best.min_radicand = None \/ radicand <= best.min_radicand[1]
           THEN ClosestLoopLastWins(i + 1, dimensions,
                  [min_radicand |-> Some(radicand), closest |-> EMOTION_COORDINATES[i].label])
           ELSE ClosestLoopLastWins(i + 1, dimensions, best)

\* for emotion, coords in EMOTION_COORDINATES.items(): keep the label whose
\* distance is strictly below the least seen so far.  min_radicand = None is
\* float('inf'); distances are compared through their radicands.
RECURSIVE ClosestLoop(_, _, _)
ClosestLoop(i, dimensions, best) ==
  IF i > Len(EMOTION_COORDINATES) THEN best
  ELSE LET radicand == DistanceSquared(dimensions, EMOTION_COORDINATES[i].coords)
       IN  IF best.min_radicand = None \/ radicand < best.min_radicand[1]
           THEN ClosestLoop(i + 1, dimensions,
                  [min_radicand |-> Some(radicand), closest |-> EMOTION_COORDINATES[i].label])
           ELSE ClosestLoop(i + 1, dimensions, best)

\* get_closest_emotion: the closest label and confidence = max(0, 1 - min_distance / 2).
\* With a NaN coordinate every distance is NaN and no `distance < min_distance`
\* holds: closest stays NEUTRAL, min_distance stays inf and max(0, -inf) is 0.
get_closest_emotion(dimensions) ==
  IF IsNaN(dimensions.valence) \/ IsNaN(dimensions.arousal) \/ IsNaN(dimensions.dominance)
  THEN [label |-> "neutral", confidence |-> 0]
  ELSE LET found == ClosestLoop(1, dimensions, [min_radicand |-> None, closest |-> "neutral"])
           min_distance == ISqrt(found.min_radicand[1])
       IN  [label |-> found.closest, confidence |-> Max(0, Scale - TDiv(min_distance, 2))]

get_emotion_label(self) == get_closest_emotion(self.current_affect)

\* max(self.system_activations.items(), key=lambda x: x[1]): the first system,
\* in the order of the dict, whose activation no other exceeds
RECURSIVE MaxSystemLoop(_, _, _)
MaxSystemLoop(i, system_activations, best) ==
  IF i > Len(AffectiveSystem) THEN best
  ELSE IF system_activations[AffectiveSystem[i]] > system_activations[best]
       THEN MaxSystemLoop(i + 1, system_activations, AffectiveSystem[i])
       ELSE MaxSystemLoop(i + 1, system_activations, best)

\* get_dominant_system: None if the greatest activation is below 0.1, else the
\* system and its activation.  (system_activations is never empty after __init__.)
get_dominant_system(self) ==
  LET max_system == MaxSystemLoop(2, self.system_activations, AffectiveSystem[1])
  IN  IF self.system_activations[max_system] < 100 THEN None
      ELSE Some([system |-> max_system, activation |-> self.system_activations[max_system]])

\* ------------------------------------------------------------------
\* The queries on one instance: get_emotion_label, get_dominant_system and
\* the vector operation decay_toward applied to current_affect
\* ------------------------------------------------------------------
MaxQuerySteps == 1

\* current affects: the origin, the coordinate of joy, the default baseline,
\* two points with two nearest labels and one with three, the corners, a
\* point far outside the cube (the constructor takes it)
QueryAffectInputs ==
  {<<0, 0, 0>>, <<800, 600, 400>>, <<150, 100, 0>>, <<-700, 400, -200>>,
   <<-900, -500, 400>>, <<-800, 0, -300>>, <<2000, -2000, -2000>>,
   <<1000, 1000, 1000>>, <<-1000, -1000, -1000>>, <<300, -900, 200>>}

QueryBaselineInputs == {<<150, 100, 0>>, <<0, 0, 0>>, <<-1000, 1000, -1000>>}

\* care exactly at the 0.1 threshold, just above it and just below it
CareAtThreshold == [ZeroActivations EXCEPT !["care"] = 100]

CareAboveThreshold == [ZeroActivations EXCEPT !["care"] = 101, !["seeking"] = 100]

AllBelowThreshold == [ZeroActivations EXCEPT !["seeking"] = 50, !["play"] = 99]

\* rage and care equally active
RageCareTie == [ZeroActivations EXCEPT !["rage"] = 500, !["care"] = 500]

QueryActivationInputs ==
  {ZeroActivations, CareAtThreshold, CareAboveThreshold, AllBelowThreshold,
   RageCareTie, MixedActive}

\* the rates handed to decay_toward: 0.001 .. 1.0 lie in (0, 1]; 0 and 2.0 do not
RateInputs == {0, 1, 50, 500, 1000, 2000}

QueryInit ==
  \E c \in QueryAffectInputs, b \in QueryBaselineInputs, act \in QueryActivationInputs :
    LET built == AdvancedEmotionalState("c1", AffectiveDimensions(c[1], c[2], c[3]),
                                        AffectiveDimensions(b[1], b[2], b[3]),
                                        Some(act), 300, 0)
    IN  /\ obj = [i \in Instances |-> IF i = 1 THEN built.state ELSE NoState]
        /\ made = [i \in Instances |-> IF i = 1 /\ built.ok THEN "ok" ELSE "none"]
        /\ last = [i \in Instances |->
                     IF i = 1
                     THEN [op |-> "construct", arg |-> None, pre |-> NoState, ret |-> "ok"]
                     ELSE NoCall]
        /\ clock = 0
        /\ steps = [i \in Instances |-> 0]
        /\ running = NoThreads

QueryCallable(i) == made[i] = "ok" /\ steps[i] < MaxQuerySteps

\* a call on instance i that returns ret and writes no field
Answer(i, op, arg, ret) ==
  /\ QueryCallable(i)
  /\ last' = [last EXCEPT ![i] = [op |-> op, arg |-> arg, pre |-> obj[i], ret |-> ret]]
  /\ steps' = Count(i)
  /\ UNCHANGED <<obj, made, clock, running>>

GetEmotionLabel(i) == Answer(i, "get_emotion_label", None, get_emotion_label(obj[i]))

GetDominantSystem(i) == Answer(i, "get_dominant_system", None, get_dominant_system(obj[i]))

\* current_affect.decay_toward(baseline_affect, rate), the result returned
DecayToward(i, rate) ==
  Answer(i, "decay_toward", rate, decay_toward(obj[i].current_affect, obj[i].baseline_affect, rate))

QueryNext ==
  \/ GetEmotionLabel(1)
  \/ GetDominantSystem(1)
  \/ \E rate \in RateInputs : DecayToward(1, rate)

QuerySpec == QueryInit /\ [][QueryNext]_vars

\* ------------------------------------------------------------------
\* A long run of update_affect calls on one instance made by the factory
\* ------------------------------------------------------------------
MaxHistorySteps == 53

HistoryInit ==
  LET made1 == create_advanced_emotional_state("c1", 150, 100, 0, 300, 0)
  IN  /\ obj = [i \in Instances |-> IF i = 1 THEN made1.state ELSE NoState]
      /\ made = [i \in Instances |-> IF i = 1 THEN "ok" ELSE "none"]
      /\ last = [i \in Instances |->
                   IF i = 1
                   THEN [op |-> "create", arg |-> <<150, 100, 0, 300>>, pre |-> NoState,
                         ret |-> "ok"]
                   ELSE NoCall]
      /\ clock = 0
      /\ steps = [i \in Instances |-> 0]
      /\ running = NoThreads

HistoryCallable(i) == made[i] = "ok" /\ steps[i] < MaxHistorySteps

\* the appraisal handed to update_affect: the last one returned by
\* appraise_message, or the default AppraisalResult() before any
HistoryAppraisal(self) ==
  IF self.last_appraisal = None THEN AppraisalResult ELSE self.last_appraisal[1]

\* a second passes, then update_affect on instance i
HistoryUpdate(i) ==
  /\ HistoryCallable(i)
  /\ clock' = clock + 1
  /\ obj' = Store(i, update_affect(obj[i], HistoryAppraisal(obj[i]), clock + 1))
  /\ last' = [last EXCEPT ![i] =
                [op |-> "update_affect", arg |-> HistoryAppraisal(obj[i]), pre |-> obj[i],
                 ret |-> None]]
  /\ steps' = Count(i)
  /\ UNCHANGED <<made, running>>

\* the other calls are made between two updates, before the first update and
\* around the moment the history fills up
HistoryDetour(i) ==
  /\ HistoryCallable(i)
  /\ last[i].op \in {"create", "update_affect"}
  /\ Len(obj[i].affect_history) \in {0, obj[i].max_history - 1, obj[i].max_history}

HistoryAppraise(i) == HistoryDetour(i) /\ DoAppraise(i, ScenarioBText)

HistoryDecay(i) == HistoryDetour(i) /\ DoDecay(i, Some(60))

HistoryNext ==
  \/ HistoryUpdate(1)
  \/ HistoryAppraise(1)
  \/ HistoryDecay(1)

HistorySpec == HistoryInit /\ [][HistoryNext]_vars

\* ------------------------------------------------------------------
\* Successive decay(60) calls on one instance, nothing in between
\* ------------------------------------------------------------------
MaxDecaySteps == 10

\* in-bounds current affects: pleasant, unpleasant, calm, aroused, the corners
DecayAffectInputs ==
  {<<150, 100, 0>>, <<0, 0, 0>>, <<800, 600, 400>>, <<-800, 700, -600>>,
   <<-600, -300, -300>>, <<1000, 1000, 1000>>, <<-1000, -1000, -1000>>,
   <<200, -500, 900>>, <<-200, 1000, 0>>, <<-210, 0, 1000>>, <<210, -1000, -50>>}

DecayBaselineInputs == {<<150, 100, 0>>, <<0, 0, 0>>, <<-500, 500, 1000>>}

DecayActivationInputs == {ZeroActivations, MixedActive}

\* the state the factory makes with its defaults, and states built by the
\* constructor with a current affect away from the baseline
DecayInit ==
  \E c \in DecayAffectInputs, b \in DecayBaselineInputs, act \in DecayActivationInputs :
    LET built == IF c = b /\ act = ZeroActivations
                 THEN create_advanced_emotional_state("c1", b[1], b[2], b[3], 300, 0)
                 ELSE AdvancedEmotionalState("c1", AffectiveDimensions(c[1], c[2], c[3]),
                                             AffectiveDimensions(b[1], b[2], b[3]),
                                             Some(act), 300, 0)
    IN  /\ obj = [i \in Instances |-> IF i = 1 THEN built.state ELSE NoState]
        /\ made = [i \in Instances |-> IF i = 1 /\ built.ok THEN "ok" ELSE "none"]
        /\ last = [i \in Instances |->
                     IF i = 1
                     THEN [op |-> "construct", arg |-> None, pre |-> NoState, ret |-> "ok"]
                     ELSE NoCall]
        /\ clock = 0
        /\ steps = [i \in Instances |-> 0]
        /\ running = NoThreads

DecayCallable(i) == made[i] = "ok" /\ steps[i] < MaxDecaySteps

\* decay(60) on instance i
DecaySixty(i) == DecayCallable(i) /\ DoDecay(i, Some(60))

DecayNext == DecaySixty(1)

DecaySpec == DecayInit /\ [][DecayNext]_vars

\* ------------------------------------------------------------------
\* Two instances made by the factory, called in any order
\* ------------------------------------------------------------------
MaxIsolationSteps == 2

IsolationBaselineInputs == {<<150, 100, 0>>, <<-500, 500, 0>>}

IsolationMessages == {ScenarioAText, ScenarioBText}

IsolationInit ==
  \E b1 \in IsolationBaselineInputs, b2 \in IsolationBaselineInputs :
    LET built == [i \in Instances |->
                    IF i = 1
                    THEN create_advanced_emotional_state("c1", b1[1], b1[2], b1[3], 300, 0)
                    ELSE create_advanced_emotional_state("c2", b2[1], b2[2], b2[3], 300, 0)]
    IN  /\ obj = [i \in Instances |-> built[i].state]
        /\ made = [i \in Instances |-> IF built[i].ok THEN "ok" ELSE "rejected"]
        /\ last = [i \in Instances |->
                     [op |-> "create", arg |-> None, pre |-> NoState, ret |-> "ok"]]
        /\ clock = 0
        /\ steps = [i \in Instances |-> 0]
        /\ running = NoThreads

IsolationCallable(i) == made[i] = "ok" /\ steps[i] < MaxIsolationSteps

IsolationAppraise(i, message) == IsolationCallable(i) /\ DoAppraise(i, message)

\* update_affect on instance i with the appraisal it last returned
IsolationUpdateAffect(i) == IsolationCallable(i) /\ DoUpdateAffect(i, HistoryAppraisal(obj[i]))

IsolationDecay(i) == IsolationCallable(i) /\ DoDecay(i, Some(60))

IsolationNext ==
  \E i \in Instances :
    \/ \E message \in IsolationMessages : IsolationAppraise(i, message)
    \/ IsolationUpdateAffect(i)
    \/ IsolationDecay(i)

IsolationSpec == IsolationInit /\ [][IsolationNext]_vars

\* ------------------------------------------------------------------
\* One message appraised again and again by an instance made by the factory
\* ------------------------------------------------------------------
MaxRepeatSteps == 12

\* emotional_inertia strictly between 0 and 1
RepeatInertiaInputs == {10, 250, 300, 500, 900, 990}

RepeatMessages == {ScenarioAText, ScenarioBText, RepeatText, FearText}

RepeatInit ==
  \E inertia \in RepeatInertiaInputs :
    LET made1 == create_advanced_emotional_state("c1", 150, 100, 0, inertia, 0)
    IN  /\ obj = [i \in Instances |-> IF i = 1 THEN made1.state ELSE NoState]
        /\ made = [i \in Instances |-> IF i = 1 /\ made1.ok THEN "ok" ELSE "none"]
        /\ last = [i \in Instances |->
                     IF i = 1
                     THEN [op |-> "create", arg |-> <<150, 100, 0, inertia>>, pre |-> NoState,
                           ret |-> "ok"]
                     ELSE NoCall]
        /\ clock = 0
        /\ steps = [i \in Instances |-> 0]
        /\ running = NoThreads

RepeatCallable(i) == made[i] = "ok" /\ steps[i] < MaxRepeatSteps

\* appraise_message(message) on instance i, message being the one of the calls before
RepeatAppraise(i, message) ==
  /\ RepeatCallable(i)
  /\ last[i].op = "create" \/ last[i].arg = message
  /\ DoAppraise(i, message)

RepeatNext == \E message \in RepeatMessages : RepeatAppraise(1, message)

RepeatSpec == RepeatInit /\ [][RepeatNext]_vars

\* ------------------------------------------------------------------
\* Two instances with their own valence and arousal, decayed over the same time
\* ------------------------------------------------------------------
MaxRateSteps == 1

\* current valence: both sides of -0.2 and of 0.2, and the two values themselves
RateValenceInputs == {-1000, -500, -201, -200, 0, 200, 201, 1000}

RateArousalInputs == {-500, 0, 300, 1000}

\* every system equally active
EqualActive == [s \in Systems |-> 500]

RateActivationInputs == {EqualActive, MixedActive}

\* seconds given to decay: none, a minute, ten minutes, twenty minutes
RateElapsedInputs == {0, 60, 600, 1200}

RateInit ==
  \E v1 \in RateValenceInputs, v2 \in RateValenceInputs, a1 \in RateArousalInputs,
     a2 \in RateArousalInputs, act \in RateActivationInputs :
    LET built == [i \in Instances |->
                    AdvancedEmotionalState(IF i = 1 THEN "c1" ELSE "c2",
                                           AffectiveDimensions(IF i = 1 THEN v1 ELSE v2,
                                                               IF i = 1 THEN a1 ELSE a2, 0),
                                           DefaultBaseline, Some(act), 300, 0)]
    IN  /\ obj = [i \in Instances |-> built[i].state]
        /\ made = [i \in Instances |-> IF built[i].ok THEN "ok" ELSE "rejected"]
        /\ last = [i \in Instances |->
                     [op |-> "construct", arg |-> None, pre |-> NoState, ret |-> "ok"]]
        /\ clock = 0
        /\ steps = [i \in Instances |-> 0]
        /\ running = NoThreads

RateCallable == \A i \in Instances : made[i] = "ok" /\ steps[i] < MaxRateSteps

\* decay(seconds_elapsed) on instance 1 and on instance 2
RateDecay(seconds_elapsed) ==
  /\ RateCallable
  /\ obj' = [i \in Instances |-> decay(obj[i], seconds_elapsed, clock)]
  /\ last' = [i \in Instances |->
                [op |-> "decay", arg |-> seconds_elapsed, pre |-> obj[i], ret |-> None]]
  /\ steps' = [i \in Instances |-> steps[i] + 1]
  /\ UNCHANGED <<made, clock, running>>

RateNext == \E seconds \in RateElapsedInputs : RateDecay(Some(seconds))

RateSpec == RateInit /\ [][RateNext]_vars

\* ------------------------------------------------------------------
\* Two threads calling one instance, each call a sequence of reads and writes
\* ------------------------------------------------------------------
Threads == {1, 2}

\* the appraisal a thread hands to update_affect: that of the pleasant message
ThreadAppraisal ==
  ClampAppraisal(AppraiseLoop(1, MatchTable[ScenarioAText], 0,
                              [appraisal |-> AppraisalResult,
                               system_activations |-> ZeroActivations]).appraisal)

\* the calls a thread makes; decay is given ten minutes
ThreadCalls ==
  {[op |-> "update_affect", arg |-> ThreadAppraisal],
   [op |-> "decay", arg |-> Some(600)],
   [op |-> "appraise_message", arg |-> FearText],
   [op |-> "appraise_message", arg |-> PlayText]}

\* the values a call holds between its steps
NoLocals == [affect |-> AffectiveDimensions(0, 0, 0), rate |-> 0, now |-> 0, current |-> 0]

\* the first pattern from index k on that matched and names a system, 0 if none
RECURSIVE NextActivating(_, _)
NextActivating(message, k) ==
  IF k > Len(APPRAISAL_PATTERNS) THEN 0
  ELSE IF MatchTable[message][k] > 0 /\ APPRAISAL_PATTERNS[k].system_activation # "none"
       THEN k
       ELSE NextActivating(message, k + 1)

\* the system the loop of thread t is at
SystemAt(t) ==
  IF running.thread[t].op = "decay" THEN AffectiveSystem[running.thread[t].k]
  ELSE APPRAISAL_PATTERNS[running.thread[t].k].system_activation

\* an instance away from its baseline with three systems active, and two
\* threads about to call it, under a caller that serializes the calls or not
ThreadInit ==
  \E c1 \in ThreadCalls, c2 \in ThreadCalls, serialized \in BOOLEAN :
    LET built == AdvancedEmotionalState("c1", AffectiveDimensions(-500, 600, 0),
                                        DefaultBaseline, Some(MixedActive), 300, 0)
    IN  /\ obj = [i \in Instances |-> IF i = 1 THEN built.state ELSE NoState]
        /\ made = [i \in Instances |-> IF i = 1 THEN "ok" ELSE "none"]
        /\ last = [i \in Instances |->
                     IF i = 1
                     THEN [op |-> "construct", arg |-> None, pre |-> NoState, ret |-> "ok"]
                     ELSE NoCall]
        /\ clock = 0
        /\ steps = [i \in Instances |-> 0]
        /\ running = [serialized |-> serialized,
                      start |-> built.state,
                      order |-> <<>>,
                      thread |-> [t \in Threads |->
                                    [op |-> (IF t = 1 THEN c1 ELSE c2).op,
                                     arg |-> (IF t = 1 THEN c1 ELSE c2).arg,
                                     pc |-> "start", k |-> 0, locals |-> NoLocals]]]

\* a serializing caller lets a call begin only when no other call is under way
MayBegin(t) ==
  running.serialized =>
    \A u \in Threads \ {t} : running.thread[u].pc \in {"start", "done"}

\* thread t moves to position pc, pattern or system k, holding locals
Goto(t, pc, k, locals) ==
  [running EXCEPT !.thread[t].pc = pc, !.thread[t].k = k, !.thread[t].locals = locals]

\* the right-hand side of self.current_affect = self.current_affect.blend(...)
BlendedAffect(self, appraisal) ==
  LET combined_target == CombinedTarget(self, appraisal)
  IN  blend(self.current_affect, combined_target,
            Min(Scale, TransitionResistance(self, combined_target)))

\* the call of thread t begins: update_affect and decay read current_affect and
\* compute the value they will assign; appraise_message finds its first pattern
Begin(t) ==
  LET call == running.thread[t]
      self == obj[1]
      begun == [running EXCEPT !.order = Append(@, t)]
  IN  /\ call.pc = "start"
      /\ MayBegin(t)
      /\ running' =
           IF call.op = "update_affect"
           THEN [begun EXCEPT !.thread[t].pc = "write_affect",
                              !.thread[t].locals.affect = BlendedAffect(self, call.arg)]
           ELSE IF call.op = "decay"
           THEN LET decay_rate == DecayRate(self.current_affect, call.arg[1])
                IN  [begun EXCEPT
                       !.thread[t].pc = "write_affect",
                       !.thread[t].locals.now = clock,
                       !.thread[t].locals.rate = decay_rate,
                       !.thread[t].locals.affect =
                          decay_toward(self.current_affect, self.baseline_affect, decay_rate)]
           ELSE LET k == NextActivating(call.arg, 1)
                IN  [begun EXCEPT
                       !.thread[t].pc = IF k = 0 THEN "write_appraisal" ELSE "read_system",
                       !.thread[t].k = k]
      /\ UNCHANGED <<obj, made, last, clock, steps>>

\* self.current_affect = <the value computed at the beginning>
WriteAffect(t) ==
  LET call == running.thread[t]
  IN  /\ call.pc = "write_affect"
      /\ obj' = Store(1, [obj[1] EXCEPT !.current_affect = call.locals.affect])
      /\ running' = IF call.op = "update_affect"
                    THEN Goto(t, "record", 0, call.locals)
                    ELSE Goto(t, "read_system", 1, call.locals)
      /\ UNCHANGED <<made, last, clock, steps>>

\* update_affect ends with self._record_state()
RecordState(t) ==
  /\ running.thread[t].pc = "record"
  /\ obj' = Store(1, _record_state(obj[1], clock))
  /\ running' = Goto(t, "done", 0, running.thread[t].locals)
  /\ UNCHANGED <<made, last, clock, steps>>

\* the activation of a system as a call reads it
ReadActivationDefault(self, system) == 0

ReadActivation(self, system) == self.system_activations[system]

\* the loop of decay or _activate_system reads the activation of its system
ReadSystem(t) ==
  LET call == running.thread[t]
  IN  /\ call.pc = "read_system"
      /\ running' = Goto(t, "write_system", call.k,
                         [call.locals EXCEPT !.current = ReadActivation(obj[1], SystemAt(t))])
      /\ UNCHANGED <<obj, made, last, clock, steps>>

\* the value written back for the activation read before
WrittenActivation(t) ==
  LET call == running.thread[t]
      self == obj[1]
      system == SystemAt(t)
      pattern == APPRAISAL_PATTERNS[call.k]
  IN  IF call.op = "decay"
      THEN Mul(call.locals.current, SystemDecayFactor(system, call.locals.rate))
      ELSE _activate_system([self.system_activations EXCEPT ![system] = call.locals.current],
                            self.emotional_inertia, system,
                            SystemWeight(pattern,
                                         PatternWeight(pattern, MatchTable[call.arg][call.k]))
                           )[system]

\* the loop writes the activation and goes on to its next system or pattern
WriteSystem(t) ==
  LET call == running.thread[t]
      k == IF call.op = "decay"
           THEN (IF call.k < Len(AffectiveSystem) THEN call.k + 1 ELSE 0)
           ELSE NextActivating(call.arg, call.k + 1)
  IN  /\ call.pc = "write_system"
      /\ obj' = Store(1, [obj[1] EXCEPT !.system_activations[SystemAt(t)] =
                                          WrittenActivation(t)])
      /\ running' = IF k # 0 THEN Goto(t, "read_system", k, call.locals)
                    ELSE IF call.op = "decay" THEN Goto(t, "write_time", 0, call.locals)
                    ELSE Goto(t, "write_appraisal", 0, call.locals)
      /\ UNCHANGED <<made, last, clock, steps>>

\* decay ends with self.last_update = now
WriteTime(t) ==
  /\ running.thread[t].pc = "write_time"
  /\ obj' = Store(1, [obj[1] EXCEPT !.last_update = running.thread[t].locals.now])
  /\ running' = Goto(t, "done", 0, running.thread[t].locals)
  /\ UNCHANGED <<made, last, clock, steps>>

\* appraise_message ends with self.last_appraisal = appraisal
WriteAppraisal(t) ==
  LET message == running.thread[t].arg
      appraisal == ClampAppraisal(AppraiseLoop(1, MatchTable[message], 0,
                                               [appraisal |-> AppraisalResult,
                                                system_activations |-> ZeroActivations]
                                              ).appraisal)
  IN  /\ running.thread[t].pc = "write_appraisal"
      /\ obj' = Store(1, [obj[1] EXCEPT !.last_appraisal = Some(appraisal)])
      /\ running' = Goto(t, "done", 0, running.thread[t].locals)
      /\ UNCHANGED <<made, last, clock, steps>>

ThreadNext ==
  \E t \in Threads :
    \/ Begin(t)
    \/ WriteAffect(t)
    \/ RecordState(t)
    \/ ReadSystem(t)
    \/ WriteSystem(t)
    \/ WriteTime(t)
    \/ WriteAppraisal(t)

ThreadSpec == ThreadInit /\ [][ThreadNext]_vars
\* ------------------------------------------------------------------
\* Two instances in states of their own, appraising the same messages
\* ------------------------------------------------------------------
MaxTextSteps == 2

\* what an instance is built from: a fresh state as the factory makes it, a
\* fearful one without inertia, a content one that hardly moves
TextProfiles ==
  {[current |-> DefaultBaseline, baseline |-> DefaultBaseline,
    activations |-> ZeroActivations, inertia |-> 300],
   [current |-> AffectiveDimensions(-500, 600, 0), baseline |-> DefaultBaseline,
    activations |-> MixedActive, inertia |-> 0],
   [current |-> AffectiveDimensions(800, -200, 500),
    baseline |-> AffectiveDimensions(-500, 500, 0),
    activations |-> EqualActive, inertia |-> 900]}

TextMessages == {FearHelpText, PlayText}

\* AdvancedEmotionalState(character_id=..., current_affect=..., ...)
TextBuild(character_id, profile) ==
  AdvancedEmotionalState(character_id, profile.current, profile.baseline,
                         Some(profile.activations), profile.inertia, 0).state

TextId(i) == IF i = 1 THEN "c1" ELSE "c2"

TextInit ==
  \E p1 \in TextProfiles, p2 \in TextProfiles :
    /\ obj = [i \in Instances |-> TextBuild(TextId(i), IF i = 1 THEN p1 ELSE p2)]
    /\ made = [i \in Instances |-> "ok"]
    /\ last = [i \in Instances |->
                 [op |-> "construct", arg |-> None, pre |-> NoState, ret |-> "ok"]]
    /\ clock = 0
    /\ steps = [i \in Instances |-> 0]
    /\ running = NoThreads

TextCallable(i) == made[i] = "ok" /\ steps[i] < MaxTextSteps

TextAppraise(i, message) == TextCallable(i) /\ DoAppraise(i, message)

\* update_affect on instance i with the appraisal it last returned
TextUpdateAffect(i) == TextCallable(i) /\ DoUpdateAffect(i, HistoryAppraisal(obj[i]))

TextDecay(i) == TextCallable(i) /\ DoDecay(i, Some(60))

TextNext ==
  \E i \in Instances :
    \/ \E message \in TextMessages : TextAppraise(i, message)
    \/ TextUpdateAffect(i)
    \/ TextDecay(i)

TextSpec == TextInit /\ [][TextNext]_vars
\* ------------------------------------------------------------------
\* get_response_modifier on one instance built by the constructor
\* ------------------------------------------------------------------
\* x > c and x < c of the code: false when x is NaN
Above(x, c) == ~IsNaN(x) /\ x > c

Below(x, c) == ~IsNaN(x) /\ x < c

\* system_descriptions of get_response_modifier
system_descriptions ==
  [seeking |-> "curious and explorative",
   rage |-> "frustrated or angered",
   fear |-> "cautious and wary",
   care |-> "nurturing and protective",
   panic_grief |-> "experiencing a sense of loss",
   play |-> "playful and lighthearted",
   lust |-> "drawn to connection"]

\* ', '.join(modifiers)
RECURSIVE Join(_)
Join(modifiers) ==
  IF modifiers = <<>> THEN ""
  ELSE IF Len(modifiers) = 1 THEN modifiers[1]
       ELSE modifiers[1] \o ", " \o Join(Tail(modifiers))

\* the modifiers list of get_response_modifier, in the order of the appends
Modifiers(self) ==
  LET emotion == get_emotion_label(self)
      dominant_system == get_dominant_system(self)
      affect == self.current_affect
  IN  (IF Above(affect.valence, 500) THEN <<"feeling positively inclined">>
       ELSE IF Below(affect.valence, -500) THEN <<"feeling negatively affected">>
       ELSE <<>>)
      \o (IF Above(affect.arousal, 500) THEN <<"in a heightened emotional state">>
          ELSE IF Below(affect.arousal, -300) THEN <<"in a calm, low-energy state">>
          ELSE <<>>)
      \o (IF Above(affect.dominance, 500) THEN <<"feeling confident and in control">>
          ELSE IF Below(affect.dominance, -500) THEN <<"feeling somewhat vulnerable">>
          ELSE <<>>)
      \o (IF dominant_system # None /\ dominant_system[1].activation > 300
          THEN <<system_descriptions[dominant_system[1].system]>>
          ELSE <<>>)
      \o (IF emotion.confidence > 500 THEN <<"experiencing " \o emotion.label>> ELSE <<>>)

\* get_response_modifier: the text handed to the response generator
get_response_modifier(self) ==
  LET modifiers == Modifiers(self)
  IN  IF modifiers # <<>>
      THEN "[Emotional state: " \o Join(SelectSeq(modifiers, LAMBDA m : m # "")) \o "]"
      ELSE "[Emotional state: neutral]"

\* current valence: not a number, the ends of the range, both sides of -0.5
\* and of 0.5, the origin
ModifierValenceInputs == {NaN, -1000, -501, -500, 0, 500, 501}

\* current arousal: both sides of -0.3 and of 0.5, and between
ModifierArousalInputs == {-301, -300, 100, 500, 501}

ModifierDominanceInputs == {-501, -500, 0, 500, 501}

\* play dominant at exactly 0.3, which is not above 0.3
PlayAtThreshold == [ZeroActivations EXCEPT !["play"] = 300]

ModifierActivationInputs == {ZeroActivations, PlayAtThreshold, MixedActive}

ModifierInit ==
  \E v \in ModifierValenceInputs, a \in ModifierArousalInputs, d \in ModifierDominanceInputs,
     act \in ModifierActivationInputs :
    LET built == AdvancedEmotionalState("c1", AffectiveDimensions(v, a, d), DefaultBaseline,
                                        Some(act), 300, 0)
    IN  /\ obj = [i \in Instances |-> IF i = 1 THEN built.state ELSE NoState]
        /\ made = [i \in Instances |-> IF i = 1 THEN "ok" ELSE "none"]
        /\ last = [i \in Instances |->
                     IF i = 1
                     THEN [op |-> "construct", arg |-> None, pre |-> NoState, ret |-> "ok"]
                     ELSE NoCall]
        /\ clock = 0
        /\ steps = [i \in Instances |-> 0]
        /\ running = NoThreads

GetResponseModifier(i) ==
  Answer(i, "get_response_modifier", None, get_response_modifier(obj[i]))

ModifierNext == GetResponseModifier(1)

ModifierSpec == ModifierInit /\ [][ModifierNext]_vars
\* ------------------------------------------------------------------
\* Properties
\* ------------------------------------------------------------------
InRange(lo, hi, x) == lo <= x /\ x <= hi

AffectInBounds(d) ==
  /\ InRange(-Scale, Scale, d.valence)
  /\ InRange(-Scale, Scale, d.arousal)
  /\ InRange(-Scale, Scale, d.dominance)

ActivationsInBounds(system_activations) ==
  \A s \in Systems : InRange(0, Scale, system_activations[s])

TypeOK ==
  /\ \A i \in Instances : made[i] \in {"none", "ok", "rejected"}
  /\ clock \in 0..(MaxClock + TickSeconds)

\* every pattern of the table has no keyword in the (lower-cased) message
NoKeyword(message) ==
  \A p \in DOMAIN APPRAISAL_PATTERNS : MatchTable[message][p] = 0

\* instance i was made by a call whose baseline and inertia are in range
ValidConfiguration(i) ==
  /\ made[i] = "ok"
  /\ AffectInBounds(obj[i].baseline_affect)
  /\ InRange(0, Scale, obj[i].emotional_inertia)

\* x lies between a and b, ends included
Between(a, b, x) == Min(a, b) <= x /\ x <= Max(a, b)

\* C1: for a state created with in-range baseline and inertia, after every
\* call of every sequence of appraise_message / update_affect / decay calls the
\* three axes of current_affect lie in [-1, 1] and every system activation
\* lies in [0, 1].
C1_BoundsInvariant ==
  \A i \in Instances :
    ValidConfiguration(i) =>
      /\ AffectInBounds(obj[i].current_affect)
      /\ ActivationsInBounds(obj[i].system_activations)

\* C3: decay of an in-bounds state, for any elapsed time >= 0, leaves each axis
\* of current_affect between its value before the call and the baseline value
\* of that axis, each system activation between 0 and its value before the
\* call, and every value within its declared bounds.
C3_DecayNeverOvershoots ==
  \A i \in Instances :
    LET pre == last[i].pre
        post == obj[i]
    IN  ( /\ last[i].op = "decay"
          /\ AffectInBounds(pre.current_affect)
          /\ AffectInBounds(pre.baseline_affect)
          /\ ActivationsInBounds(pre.system_activations) )
        =>
        /\ Between(pre.current_affect.valence, pre.baseline_affect.valence,
                   post.current_affect.valence)
        /\ Between(pre.current_affect.arousal, pre.baseline_affect.arousal,
                   post.current_affect.arousal)
        /\ Between(pre.current_affect.dominance, pre.baseline_affect.dominance,
                   post.current_affect.dominance)
        /\ \A s \in Systems :
             Between(0, pre.system_activations[s], post.system_activations[s])
        /\ AffectInBounds(post.current_affect)
        /\ ActivationsInBounds(post.system_activations)

\* C6: a construction call whose baseline valence, arousal or dominance is
\* outside [-1, 1], or whose emotional_inertia is outside [0, 1], is rejected
\* and yields no state.
C6_ConstructionValidated ==
  \A i \in Instances :
    last[i].op = "create" =>
      LET arg == last[i].arg
          valid == /\ InRange(-Scale, Scale, arg[1])
                   /\ InRange(-Scale, Scale, arg[2])
                   /\ InRange(-Scale, Scale, arg[3])
                   /\ InRange(0, Scale, arg[4])
      IN  ~valid => (made[i] = "rejected" /\ last[i].ret = "ValidationError")

\* C7: appraise_message of the empty string, or of a text with none of the
\* table's keywords, returns an AppraisalResult whose ten fields are 0 and
\* leaves every system activation as it was before the call.
C7_NoMatchAppraisal ==
  \A i \in Instances :
    (last[i].op = "appraise_message" /\ NoKeyword(last[i].arg)) =>
      /\ \A f \in DOMAIN last[i].ret : last[i].ret[f] = 0
      /\ DOMAIN last[i].ret = {AppraisalFields[k] : k \in DOMAIN AppraisalFields}
      /\ obj[i].system_activations = last[i].pre.system_activations

\* C7 witness: a no-keyword text, and the empty text, appraised by a state
\* some of whose systems are active
C7_Witness ==
  /\ last[1].op = "appraise_message"
  /\ last[1].arg \in {<<>>, NoMatchText}
  /\ NoKeyword(last[1].arg)
  /\ \E s \in Systems : last[1].pre.system_activations[s] > 0

\* C8: appraise_message leaves current_affect, baseline_affect, the affect
\* history, last_update and emotional_inertia as they were before the call.
C8_AppraiseFrame ==
  \A i \in Instances :
    last[i].op = "appraise_message" =>
      /\ obj[i].current_affect = last[i].pre.current_affect
      /\ obj[i].baseline_affect = last[i].pre.baseline_affect
      /\ obj[i].affect_history = last[i].pre.affect_history
      /\ obj[i].last_update = last[i].pre.last_update
      /\ obj[i].emotional_inertia = last[i].pre.emotional_inertia

\* C8 witness: an appraisal that matched patterns and moved system activations
C8_Witness ==
  /\ last[1].op = "appraise_message"
  /\ ~NoKeyword(last[1].arg)
  /\ obj[1].system_activations # last[1].pre.system_activations
  /\ obj[1].last_appraisal # last[1].pre.last_appraisal

\* C9: appraise_message("Thank you so much, I am so grateful") returns a
\* pleasantness greater than 0.5.
C9_ScenarioA ==
  \A i \in Instances :
    (last[i].op = "appraise_message" /\ last[i].arg = ScenarioAText) =>
      last[i].ret.pleasantness > 500

\* C10: appraise_message("I am so angry, this is unfair and unjust") returns a
\* pleasantness below -0.5 and a goal_conduciveness below 0, every pattern with
\* a keyword in the lower-cased text (rage, and greetings through "hi" in
\* "this") having contributed.
C10_ScenarioB ==
  \A i \in Instances :
    (last[i].op = "appraise_message" /\ last[i].arg = ScenarioBText) =>
      /\ last[i].ret.pleasantness < -500
      /\ last[i].ret.goal_conduciveness < 0

\* C10 witness: the text appraised, with the contribution of the greetings
\* pattern (the only matched pattern with external_standards) in the result
C10_Witness ==
  /\ last[1].op = "appraise_message"
  /\ last[1].arg = ScenarioBText
  /\ MatchTable[ScenarioBText][2] = 2
  /\ MatchTable[ScenarioBText][12] = 1
  /\ last[1].ret.external_standards > 0

\* the change of valence made by the last call on instance i
ValenceChange(i) == Abs(obj[i].current_affect.valence - last[i].pre.current_affect.valence)

\* the last call on both instances was update_affect, instance 1 at valence -v
\* pulled toward combined valence +t and instance 2 at valence +v pulled
\* toward combined valence -t, for some v in (0.3, 1] and t in (0, 1]
MirroredUpdate ==
  /\ last[1].op = "update_affect"
  /\ last[2].op = "update_affect"
  /\ last[1].pre.emotional_inertia = last[2].pre.emotional_inertia
  /\ last[1].pre.current_affect.valence = -last[2].pre.current_affect.valence
  /\ last[2].pre.current_affect.valence > 300
  /\ last[2].pre.current_affect.valence <= Scale
  /\ CombinedTarget(last[1].pre, last[1].arg).valence
       = -CombinedTarget(last[2].pre, last[2].arg).valence
  /\ CombinedTarget(last[1].pre, last[1].arg).valence > 0
  /\ CombinedTarget(last[1].pre, last[1].arg).valence <= Scale

\* C2 as stated: for every emotional_inertia in [0, 1], the change of valence
\* of the negative state pulled up is strictly smaller than the change of the
\* mirror state pulled down.
C2_HarderToImprove_Original ==
  MirroredUpdate => ValenceChange(1) < ValenceChange(2)

\* C2: for every emotional_inertia in [0, 1), every v in (0.3, 1] and every t
\* in (0, 1], update_affect changes the valence of the state at -v with
\* combined target +t by strictly less than it changes the valence of the
\* mirror state at +v with combined target -t; at emotional_inertia = 1
\* neither state changes.
C2_HarderToImprove ==
  MirroredUpdate =>
    IF last[1].pre.emotional_inertia < Scale
    THEN ValenceChange(1) < ValenceChange(2)
    ELSE ValenceChange(1) = 0 /\ ValenceChange(2) = 0

\* C2 witness: a mirrored pair, inertia below 1, whose negative state did move
C2_Witness ==
  /\ MirroredUpdate
  /\ last[1].pre.emotional_inertia < Scale
  /\ last[1].pre.emotional_inertia > 0
  /\ ValenceChange(1) > 0

\* the two instances were, before the last call, equal in every field but the
\* current valence (and the character id)
EqualButValence ==
  /\ [last[1].pre EXCEPT !.current_affect.valence = 0, !.character_id = ""]
       = [last[2].pre EXCEPT !.current_affect.valence = 0, !.character_id = ""]

\* the last call on both instances was update_affect with one appraisal whose
\* target valence is +0.8, on a state at valence -0.5 and a state at valence 0
ContaminationCase ==
  /\ last[1].op = "update_affect"
  /\ last[2].op = "update_affect"
  /\ last[1].arg = last[2].arg
  /\ to_dimensions(last[1].arg).valence = 800
  /\ last[1].pre.current_affect.valence = -500
  /\ last[2].pre.current_affect.valence = 0
  /\ EqualButValence

\* C4: given one appraisal of target valence +0.8 and all else equal, the
\* state whose valence is -0.5 before update_affect has strictly lower valence
\* after it than the state whose valence is 0.0 before it.
C4_ContaminationAsymmetry ==
  ContaminationCase => obj[1].current_affect.valence < obj[2].current_affect.valence

\* C4 witness: the case with no inertia and active systems, where the state
\* that started at 0 lands on the combined target
C4_Witness ==
  /\ ContaminationCase
  /\ last[1].pre.emotional_inertia = 0
  /\ last[1].pre.system_activations # ZeroActivations
  /\ obj[2].current_affect.valence = CombinedTarget(last[2].pre, last[2].arg).valence

\* the last call on both instances was decay with one elapsed time > 0, on
\* states with the default baseline that differ only in valence, -0.5 and +0.5
NegativityBiasCase ==
  /\ last[1].op = "decay"
  /\ last[2].op = "decay"
  /\ last[1].arg = last[2].arg
  /\ last[1].arg # None
  /\ last[1].arg[1] > 0
  /\ last[1].pre.baseline_affect = DefaultBaseline
  /\ last[1].pre.current_affect.valence = -500
  /\ last[2].pre.current_affect.valence = 500
  /\ EqualButValence

\* C5: after one decay call with the same elapsed time > 0, the state that
\* started at valence -0.5 is strictly farther from the baseline than the
\* state that started at valence +0.5.
C5_NegativityBiasDecay ==
  NegativityBiasCase =>
    DistanceSquared(obj[1].current_affect, obj[1].baseline_affect)
      > DistanceSquared(obj[2].current_affect, obj[2].baseline_affect)

\* the stimulus the Scenario A text gives to care (gratitude, two keywords) and
\* the Scenario B text gives to rage (rage, two keywords)
ScenarioACareStimulus == SystemWeight(GratitudePattern, PatternWeight(GratitudePattern, 2))

ScenarioBRageStimulus == SystemWeight(RagePattern, PatternWeight(RagePattern, 2))

\* the last call on instance i was appraise_message(message)
Appraised(i, message) == last[i].op = "appraise_message" /\ last[i].arg = message

\* the activation of system before and after the last call on instance i
ActivationBefore(i, system) == last[i].pre.system_activations[system]

ActivationAfter(i, system) == obj[i].system_activations[system]

RoseIffBelow(i, system, stimulus) ==
  IF ActivationBefore(i, system) < stimulus /\ last[i].pre.emotional_inertia < Scale
  THEN ActivationAfter(i, system) > ActivationBefore(i, system)
  ELSE ActivationAfter(i, system) <= ActivationBefore(i, system)

Called(i, op) == last[i].op = op

\* the greatest activation of a state
MaxActivation(self) ==
  CHOOSE x \in {self.system_activations[s] : s \in Systems} :
    \A s \in Systems : self.system_activations[s] <= x

\* C12: get_dominant_system returns the system with the highest activation
\* together with that activation when the highest activation is above 0.1,
\* and returns none whenever no activation is above 0.1, the highest
\* activation being exactly 0.1 included.
C12_DominantSystem ==
  \A i \in Instances :
    Called(i, "get_dominant_system") =>
      IF MaxActivation(last[i].pre) > 100
      THEN /\ last[i].ret # None
           /\ last[i].ret[1].activation = MaxActivation(last[i].pre)
           /\ last[i].pre.system_activations[last[i].ret[1].system] = MaxActivation(last[i].pre)
      ELSE last[i].ret = None

\* the radicand of the distance from d to the k-th coordinate of the table
RadicandTo(d, k) == DistanceSquared(d, EMOTION_COORDINATES[k].coords)

\* k is the first position of the table at minimal distance from d
FirstNearest(d, k) ==
  /\ \A j \in DOMAIN EMOTION_COORDINATES : RadicandTo(d, k) <= RadicandTo(d, j)
  /\ \A j \in 1..(k - 1) : RadicandTo(d, k) < RadicandTo(d, j)

\* confidence is max(0, 1 - distance / 2) for the distance with this radicand:
\* 0 from distance 2 on, and otherwise 2 * (1 - confidence) is the distance to
\* within the resolution of the arithmetic
ConfidenceOf(radicand, confidence) ==
  IF radicand >= (2 * Scale) * (2 * Scale) THEN confidence = 0
  ELSE LET twice == 2 * (Scale - confidence)
       IN  /\ confidence > 0
           /\ twice * twice <= radicand
           /\ radicand < (twice + 2) * (twice + 2)

\* C13: get_emotion_label returns, for every current affect, a label whose
\* coordinate is at minimal Euclidean distance from the current affect, the
\* first such label in table order when several are equally near, with
\* confidence = max(0, 1 - min_distance / 2); affect (0, 0, 0) yields neutral
\* and affect (0.8, 0.6, 0.4) yields confidence above 0.5.
C13_EmotionLabel ==
  \A i \in Instances :
    Called(i, "get_emotion_label") =>
      LET d == last[i].pre.current_affect
          ret == last[i].ret
      IN  /\ \E k \in DOMAIN EMOTION_COORDINATES :
               /\ EMOTION_COORDINATES[k].label = ret.label
               /\ FirstNearest(d, k)
               /\ ConfidenceOf(RadicandTo(d, k), ret.confidence)
          /\ d = AffectiveDimensions(0, 0, 0) => ret.label = "neutral"
          /\ d = AffectiveDimensions(800, 600, 400) => ret.confidence > 500

\* C13 witness: the label of an affect equally near to sadness, melancholy
\* and boredom was asked for, and sadness, the first of them, was returned
C13_Witness ==
  /\ Called(1, "get_emotion_label")
  /\ last[1].pre.current_affect = AffectiveDimensions(-900, -500, 400)
  /\ RadicandTo(last[1].pre.current_affect, 14) = RadicandTo(last[1].pre.current_affect, 15)
  /\ last[1].ret.label = "sadness"

\* C15: for every in-bounds x and baseline and every rate in (0, 1], the
\* Euclidean distance from decay_toward(x, baseline, rate) to baseline is less
\* than or equal to the distance from x to baseline.
C15_DecayTowardMonotone ==
  \A i \in Instances :
    ( /\ Called(i, "decay_toward")
      /\ last[i].arg > 0 /\ last[i].arg <= Scale
      /\ AffectInBounds(last[i].pre.current_affect)
      /\ AffectInBounds(last[i].pre.baseline_affect) )
    => DistanceSquared(last[i].ret, last[i].pre.baseline_affect)
         <= DistanceSquared(last[i].pre.current_affect, last[i].pre.baseline_affect)

\* C15 witness: decay_toward with rate 0.5 on an in-bounds pair came strictly
\* nearer to the baseline
C15_Witness ==
  /\ Called(1, "decay_toward")
  /\ last[1].arg = 500
  /\ AffectInBounds(last[1].pre.current_affect)
  /\ AffectInBounds(last[1].pre.baseline_affect)
  /\ DistanceSquared(last[1].ret, last[1].pre.baseline_affect)
       < DistanceSquared(last[1].pre.current_affect, last[1].pre.baseline_affect)

\* the snapshot of the fields of self taken at time now
Snapshot(self, now) ==
  [timestamp |-> now,
   valence |-> self.current_affect.valence,
   arousal |-> self.current_affect.arousal,
   dominance |-> self.current_affect.dominance,
   systems |-> self.system_activations]

\* after is before with one snapshot added at the end and, if before was
\* full, without its oldest entry
OneSnapshotAdded(before, after, snapshot) ==
  LET kept == IF Len(before) >= 50 THEN Tail(before) ELSE before
  IN  /\ Len(after) = Len(kept) + 1
      /\ after[Len(after)] = snapshot
      /\ \A k \in 1..Len(kept) : after[k] = kept[k]

\* C14: the affect history has at most 50 entries; each update_affect call
\* appends exactly one snapshot of the post-update valence, arousal, dominance
\* and system activations; when the bound is exceeded the oldest entry is
\* dropped, so the entries are the latest ones in call order; appraise_message
\* and decay leave the history as it was.
C14_HistoryBound ==
  \A i \in Instances :
    LET history == obj[i].affect_history
    IN  /\ Len(history) <= 50
        /\ \A k \in 1..(Len(history) - 1) : history[k].timestamp < history[k + 1].timestamp
        /\ Called(i, "update_affect") =>
             OneSnapshotAdded(last[i].pre.affect_history, history, Snapshot(obj[i], clock))
        /\ (Called(i, "appraise_message") \/ Called(i, "decay")) =>
             history = last[i].pre.affect_history

\* C14 witness: update_affect was called on a full history, whose oldest
\* entry is gone and whose second entry is now the first
C14_Witness ==
  /\ Called(1, "update_affect")
  /\ Len(last[1].pre.affect_history) = 50
  /\ Len(obj[1].affect_history) = 50
  /\ obj[1].affect_history[1] = last[1].pre.affect_history[2]
  /\ obj[1].affect_history[1] # last[1].pre.affect_history[1]

\* the radicand of the distance from current_affect to baseline_affect
RadicandToBaseline(self) == DistanceSquared(self.current_affect, self.baseline_affect)

\* C16: successive decay(60) calls with no other call in between give a
\* sequence of distances from current_affect to baseline_affect in which no
\* element exceeds its predecessor, from any in-bounds current affect and from
\* the default baseline (0.15, 0.1, 0.0) for 10 calls.
C16_DecaySequence ==
  \A i \in Instances :
    (Called(i, "decay") /\ last[i].arg = Some(60)) =>
      RadicandToBaseline(obj[i]) <= RadicandToBaseline(last[i].pre)

\* C16 witness: the tenth decay(60) in a row on a state with the default
\* baseline, still coming nearer to it
C16_Witness ==
  /\ Called(1, "decay")
  /\ last[1].arg = Some(60)
  /\ steps[1] = 10
  /\ obj[1].baseline_affect = DefaultBaseline
  /\ obj[1].affect_history = <<>>
  /\ obj[1].last_appraisal = None
  /\ RadicandToBaseline(obj[1]) < RadicandToBaseline(last[1].pre)

RECURSIVE SumOver(_, _)
SumOver(f, S) ==
  IF S = {} THEN 0
  ELSE LET x == CHOOSE y \in S : TRUE
       IN  f[x] + SumOver(f, S \ {x})

Axes == {"valence", "arousal", "dominance"}

\* the systems whose activation is above 0.1
ActiveSystems(self) == {s \in Systems : self.system_activations[s] > 100}

\* target of the appraisal: the averages, clamped to [-1, 1]
ExpectedTarget(appraisal) ==
  [valence |-> Clamp(-Scale, Scale, TDiv(appraisal.pleasantness + appraisal.goal_conduciveness, 2)),
   arousal |-> Clamp(-Scale, Scale,
                     TDiv(appraisal.novelty + appraisal.urgency + appraisal.goal_relevance, 3)),
   dominance |-> Clamp(-Scale, Scale, TDiv(appraisal.control + appraisal.power, 2))]

\* the activation-weighted average of the coordinates of the active systems,
\* the zero vector when there is none
ExpectedInfluence(self) ==
  LET total == SumOver(self.system_activations, ActiveSystems(self))
  IN  [x \in Axes |->
         IF total = 0 THEN 0
         ELSE TDiv(SumOver([s \in Systems |-> SYSTEM_DIMENSIONS[s][x] * self.system_activations[s]],
                           ActiveSystems(self)),
                   total)]

\* 0.6 * target + 0.4 * system_influence
ExpectedCombined(self, appraisal) ==
  [x \in Axes |->
     TDiv(600 * ExpectedTarget(appraisal)[x] + 400 * ExpectedInfluence(self)[x], Scale)]

\* r = (1 - inertia), times 0.4 or 1.3 by the valences
ExpectedR(self, appraisal) ==
  LET combined_valence == ExpectedCombined(self, appraisal).valence
      factor == IF self.current_affect.valence < -300 /\ combined_valence > 0 THEN 400
                ELSE IF self.current_affect.valence > 300 /\ combined_valence < 0 THEN 1300
                     ELSE Scale
  IN  TDiv((Scale - self.emotional_inertia) * factor, Scale)

\* C18: update_affect(result) sets current_affect to blend(current_affect,
\* combined_target, min(1.0, r)), with target the clamped averages of the
\* appraisal, system_influence the activation-weighted average of the
\* coordinates of exactly the systems whose activation is above 0.1 (the zero
\* vector when none is), combined_target = 0.6 * target + 0.4 *
\* system_influence, and r = (1 - inertia) times 0.4 if current valence < -0.3
\* and combined valence > 0, times 1.3 if current valence > 0.3 and combined
\* valence < 0, and times 1 otherwise.
C18_UpdateAffectFormula ==
  \A i \in Instances :
    Called(i, "update_affect") =>
      LET pre == last[i].pre
          combined == ExpectedCombined(pre, last[i].arg)
          weight == Min(Scale, ExpectedR(pre, last[i].arg))
      IN  \A x \in Axes :
            obj[i].current_affect[x] =
              TDiv(pre.current_affect[x] * (Scale - weight) + combined[x] * weight, Scale)

\* C18 witness: update_affect on a state with fear, play and seeking at 0.8,
\* 0.3 and exactly 0.1, whose valence was above 0.3 and was pulled down with
\* r capped at 1
C18_Witness ==
  \E i \in Instances :
    /\ Called(i, "update_affect")
    /\ last[i].pre.system_activations = MixedActive
    /\ last[i].pre.current_affect.valence > 300
    /\ ExpectedCombined(last[i].pre, last[i].arg).valence < 0
    /\ ExpectedR(last[i].pre, last[i].arg) > Scale
    /\ obj[i].current_affect.valence < 0

\* the patterns with count > 0 for the message
MatchedPatternsTable ==
  [m \in Messages |-> {p \in DOMAIN APPRAISAL_PATTERNS : MatchTable[m][p] > 0}]

MatchedPatterns(message) == MatchedPatternsTable[message]

\* weight = min(1.0, 0.3 * count), times 1.8 when the pattern's pleasantness
\* or goal_conduciveness effect is below -0.3
ExpectedWeight(p, count) ==
  LET effects == APPRAISAL_PATTERNS[p].appraisal_effects
      weight == Min(Scale, 300 * count)
  IN  IF effects.pleasantness < -300 \/ effects.goal_conduciveness < -300
      THEN TDiv(weight * 1800, Scale)
      ELSE weight

\* the sum over the matched patterns of effect_f * weight, not clamped
ExpectedSum(message, f) ==
  SumOver([p \in DOMAIN APPRAISAL_PATTERNS |->
             TDiv(APPRAISAL_PATTERNS[p].appraisal_effects[f]
                    * ExpectedWeight(p, MatchTable[message][p]), Scale)],
          MatchedPatterns(message))

\* C19: each field f of the AppraisalResult returned by appraise_message
\* equals the clamp to [-1, 1] of the sum, over all patterns with count > 0,
\* of effect_f * weight, with weight = min(1.0, 0.3 * count), multiplied by
\* 1.8 when the pattern's pleasantness or goal_conduciveness effect is below
\* -0.3; the contributions of different patterns accumulate and the clamp is
\* applied once after all patterns; the result is stored as last_appraisal.
C19_AppraisalFormula ==
  \A i \in Instances :
    Called(i, "appraise_message") =>
      /\ \A f \in DOMAIN AppraisalResult :
           last[i].ret[f] = Clamp(-Scale, Scale, ExpectedSum(last[i].arg, f))
      /\ obj[i].last_appraisal = Some(last[i].ret)

\* C19 witness: a text matched by three patterns (rage, fear and care) whose
\* pleasantness contributions add up to less than -1, returned as -1, while
\* power, to which two patterns contribute, lies inside the range
C19_Witness ==
  /\ Appraised(1, FearHelpText)
  /\ Cardinality(MatchedPatterns(FearHelpText)) = 3
  /\ ExpectedSum(FearHelpText, "pleasantness") < -Scale
  /\ last[1].ret.pleasantness = -Scale
  /\ last[1].ret.power # 0
  /\ last[1].ret.power > -Scale

\* for every message and pattern, the number of occurrences of the pattern's
\* keywords in the lower-cased message
OccurrenceTable ==
  [m \in Messages |->
     [p \in DOMAIN APPRAISAL_PATTERNS |->
        SumOccurrences(1, APPRAISAL_PATTERNS[p].keywords, Lower(m))]]

\* for every message and pattern, the number of the pattern's keywords that
\* occur at least once in the lower-cased message
PresenceTable ==
  [m \in Messages |->
     [p \in DOMAIN APPRAISAL_PATTERNS |->
        Cardinality({k \in DOMAIN APPRAISAL_PATTERNS[p].keywords :
                       Occurrences(APPRAISAL_PATTERNS[p].keywords[k], Lower(m)) >= 1})]]

\* the appraisal of the message when the counts of the patterns are count[p]
AppraisalFromCounts(count) ==
  [f \in DOMAIN AppraisalResult |->
     Clamp(-Scale, Scale,
           SumOver([p \in DOMAIN APPRAISAL_PATTERNS |->
                      TDiv(APPRAISAL_PATTERNS[p].appraisal_effects[f]
                             * ExpectedWeight(p, count[p]), Scale)],
                   {p \in DOMAIN APPRAISAL_PATTERNS : count[p] > 0}))]

\* C20 as stated: the count used for a pattern's weight is the number of
\* keyword occurrences in the text under case-insensitive substring match:
\* every occurrence of any of the pattern's keywords adds one, so a message
\* that contains the same keyword k times has count at least k.
C20_CountIsOccurrences ==
  \A i \in Instances :
    Called(i, "appraise_message") =>
      last[i].ret = AppraisalFromCounts(OccurrenceTable[last[i].arg])

\* C20: the count used for a pattern's weight is the number of the pattern's
\* keywords that occur in the text at least once under case-insensitive
\* substring match: a keyword adds one however many times it occurs, so a
\* message that contains one keyword k times and no other keyword of the
\* pattern has count 1 for that pattern.
C20_CountIsKeywordsPresent ==
  \A i \in Instances :
    Called(i, "appraise_message") =>
      last[i].ret = AppraisalFromCounts(PresenceTable[last[i].arg])

\* C20 witness: a text with three occurrences of the one keyword "thank" was
\* appraised with the weight of count 1: pleasantness 0.8 * 0.3
C20_Witness ==
  /\ Appraised(1, RepeatText)
  /\ OccurrenceTable[RepeatText][7] = 3
  /\ PresenceTable[RepeatText][7] = 1
  /\ last[1].ret.pleasantness = 240

NegativeSystems == {"rage", "fear", "panic_grief"}

\* stimulus i = weight * 0.5, times 1.5 when the system is rage, fear or panic_grief
ExpectedStimulus(p, count) ==
  LET half == TDiv(ExpectedWeight(p, count) * 500, Scale)
  IN  IF APPRAISAL_PATTERNS[p].system_activation \in NegativeSystems
      THEN TDiv(half * 1500, Scale)
      ELSE half

\* clamp to [0, 1] of current + (i - current) * (1 - inertia)
ExpectedStep(current, i, inertia) ==
  Clamp(0, Scale, current + TDiv((i - current) * (Scale - inertia), Scale))

\* the matched patterns of each message that trigger each system, in table order
TriggersTable ==
  [m \in Messages |->
     [s \in Systems |->
        SelectSeq([p \in DOMAIN APPRAISAL_PATTERNS |-> p],
                  LAMBDA p : MatchTable[m][p] > 0 /\ APPRAISAL_PATTERNS[p].system_activation = s)]]

\* the activation of a system after its triggers from the k-th on have been
\* applied, in table order, to current; matches[p] is the count of pattern p
RECURSIVE ExpectedActivation(_, _, _, _, _)
ExpectedActivation(k, triggers, matches, current, inertia) ==
  IF k > Len(triggers) THEN current
  ELSE ExpectedActivation(k + 1, triggers, matches,
         ExpectedStep(current, ExpectedStimulus(triggers[k], matches[triggers[k]]), inertia),
         inertia)

\* p is the only matched pattern of the message that triggers its system
OnlyTrigger(message, p) ==
  /\ p \in MatchedPatterns(message)
  /\ APPRAISAL_PATTERNS[p].system_activation # "none"
  /\ \A q \in MatchedPatterns(message) :
       APPRAISAL_PATTERNS[q].system_activation = APPRAISAL_PATTERNS[p].system_activation => q = p

SingleTriggers(message) ==
  {p \in MatchedPatterns(message) :
     /\ OnlyTrigger(message, p)
     /\ ExpectedStimulus(p, MatchTable[message][p]) > 0
     /\ ExpectedStimulus(p, MatchTable[message][p]) < Scale}

ExpectedRate(affect, elapsed_seconds) ==
  LET base == TDiv(50 * elapsed_seconds, 60)
  IN  IF affect.valence < -200
      THEN TDiv(base * 400, Scale + TDiv(Max(0, affect.arousal) * 500, Scale))
      ELSE IF affect.valence > 200 THEN TDiv(base * 1500, Scale) ELSE base

\* x moved toward the baseline by rate times the gap
ExpectedDecayed(self, rate) ==
  [x \in Axes |->
     self.current_affect[x] + TDiv((self.baseline_affect[x] - self.current_affect[x]) * rate, Scale)]

\* the rate of the last decay of instance i, from the affect it found
RateOfLastDecay(i) == ExpectedRate(last[i].pre.current_affect, last[i].arg[1])

Valence(i) == last[i].pre.current_affect.valence

Arousal(i) == last[i].pre.current_affect.arousal

\* C23: decay selects its rate from the pre-decay affect: base * 0.4 / (1 +
\* max(0, arousal) * 0.5) if valence < -0.2, base * 1.5 if valence > 0.2, and
\* base otherwise, valence exactly -0.2 or 0.2 included; for equal elapsed time
\* > 0 the rate of a negative state is strictly below that of a neutral state,
\* which is strictly below that of a positive state, and among negative
\* states the rate never increases as arousal increases.
C23_DecayRateSelection ==
  /\ \A i \in Instances :
       Called(i, "decay") =>
         /\ DecayRate(last[i].pre.current_affect, last[i].arg[1]) = RateOfLastDecay(i)
         /\ \A x \in Axes :
              obj[i].current_affect[x] = ExpectedDecayed(last[i].pre, RateOfLastDecay(i))[x]
  /\ \A i, j \in Instances :
       (Called(i, "decay") /\ Called(j, "decay") /\ last[i].arg = last[j].arg
          /\ last[i].arg[1] > 0) =>
         /\ (Valence(i) < -200 /\ Valence(j) >= -200 /\ Valence(j) <= 200)
              => RateOfLastDecay(i) < RateOfLastDecay(j)
         /\ (Valence(i) >= -200 /\ Valence(i) <= 200 /\ Valence(j) > 200)
              => RateOfLastDecay(i) < RateOfLastDecay(j)
         /\ (Valence(i) < -200 /\ Valence(j) < -200 /\ Arousal(i) <= Arousal(j))
              => RateOfLastDecay(i) >= RateOfLastDecay(j)

\* C23 witness: a state with valence exactly -0.2 and a state with valence
\* just below it and arousal 1.0 decayed over a minute, the first with the base
\* rate 0.05 and the second with a rate below it
C23_Witness ==
  /\ Called(1, "decay") /\ Called(2, "decay")
  /\ last[1].arg = Some(60) /\ last[2].arg = Some(60)
  /\ Valence(1) = -200 /\ Valence(2) = -201 /\ Arousal(2) = 1000
  /\ RateOfLastDecay(1) = 50
  /\ RateOfLastDecay(2) < 50
  /\ obj[1].current_affect.valence > obj[2].current_affect.valence + 1

\* the multiple of the rate by which decay lowers the activation of a system
ExpectedRateShare(system) ==
  IF system \in NegativeSystems THEN 500
  ELSE IF system \in {"play", "care"} THEN Scale ELSE 800

\* activation * (1 - rate * share)
ExpectedRetained(activation, system, rate) ==
  TDiv(activation * (Scale - TDiv(rate * ExpectedRateShare(system), Scale)), Scale)

\* every system has the same activation
EquallyActive(self) ==
  \A s, t \in Systems : self.system_activations[s] = self.system_activations[t]

\* C24: decay multiplies each system activation by (1 - rate * 0.5) for rage,
\* fear and panic_grief, by (1 - rate) for play and care, and by (1 - rate *
\* 0.8) for seeking and lust, with the rate that was applied to the affect;
\* from equal starting activations and 0 < rate <= 1 the negative systems
\* retain at least as much activation as seeking and lust, which retain at
\* least as much as play and care.
C24_SystemDecay ==
  \A i \in Instances :
    Called(i, "decay") =>
      LET pre == last[i].pre
          rate == RateOfLastDecay(i)
      IN  /\ \A s \in Systems :
               obj[i].system_activations[s] =
                 ExpectedRetained(pre.system_activations[s], s, rate)
          /\ (EquallyActive(pre) /\ rate > 0 /\ rate <= Scale) =>
               \A n \in NegativeSystems, m \in {"seeking", "lust"}, q \in {"play", "care"} :
                 /\ obj[i].system_activations[n] >= obj[i].system_activations[m]
                 /\ obj[i].system_activations[m] >= obj[i].system_activations[q]

\* C24 witness: decay with a rate in (0, 1] on a state whose systems were all
\* at 0.5 left rage above seeking and seeking above care
C24_Witness ==
  /\ Called(1, "decay")
  /\ last[1].pre.system_activations = EqualActive
  /\ RateOfLastDecay(1) > 0 /\ RateOfLastDecay(1) <= Scale
  /\ obj[1].system_activations["rage"] > obj[1].system_activations["seeking"]
  /\ obj[1].system_activations["lust"] > obj[1].system_activations["care"]
  /\ obj[1].system_activations["care"] > 0

\* the seconds a decay call with argument seconds_elapsed works with, on a
\* state self at time now: those given, or those between last_update and now
ElapsedAt(self, seconds_elapsed, now) ==
  IF seconds_elapsed = None THEN now - self.last_update ELSE seconds_elapsed[1]

\* the step is a decay call on instance i that sets last_update to the time of
\* the call and moves the affect by the rate of the elapsed seconds
DecayStepSetsTime(i) ==
  /\ obj'[i].last_update = clock
  /\ \A x \in Axes :
       obj'[i].current_affect[x] =
         ExpectedDecayed(obj[i], ExpectedRate(obj[i].current_affect,
                                              ElapsedAt(obj[i], last'[i].arg, clock)))[x]

\* C25: every decay call, with or without an explicit elapsed time (an
\* explicit 0 included), sets last_update to the current time; without an
\* explicit elapsed time decay works with the seconds between last_update and
\* now; appraise_message and update_affect never change last_update; and
\* last_update never moves backwards.
C25_LastUpdate ==
  [][\A i \in Instances :
       /\ obj'[i].last_update >= obj[i].last_update
       /\ steps'[i] # steps[i] =>
            IF last'[i].op = "decay" THEN DecayStepSetsTime(i)
            ELSE obj'[i].last_update = obj[i].last_update]_vars

\* C25 witness: decay() without elapsed time, ten minutes after construction
\* and after an appraise_message and an update_affect that left last_update
\* at the time of construction, moved the affect and set last_update to now
C25_Witness ==
  /\ Called(1, "decay")
  /\ last[1].arg = None
  /\ clock = 600
  /\ last[1].pre.last_update = 0
  /\ last[1].pre.last_appraisal # None
  /\ last[1].pre.affect_history # <<>>
  /\ obj[1].last_update = 600
  /\ obj[1].current_affect # last[1].pre.current_affect

\* the step leaves field f of instance i as it was
Kept(i, f) == obj'[i][f] = obj[i][f]

\* C26: update_affect changes only current_affect and the history (system
\* activations, last_appraisal and last_update are unchanged); decay changes
\* only current_affect, system activations and last_update (last_appraisal
\* and history are unchanged); no operation changes baseline_affect,
\* emotional_inertia or character_id, so baseline_affect keeps the value the
\* factory gave it, the same it gave to current_affect.
C26_Frame ==
  [][\A i \in Instances :
       /\ Kept(i, "baseline_affect") /\ Kept(i, "emotional_inertia") /\ Kept(i, "character_id")
       /\ Kept(i, "max_history")
       /\ (steps'[i] # steps[i] /\ last'[i].op = "update_affect") =>
            Kept(i, "system_activations") /\ Kept(i, "last_appraisal") /\ Kept(i, "last_update")
       /\ (steps'[i] # steps[i] /\ last'[i].op = "decay") =>
            Kept(i, "last_appraisal") /\ Kept(i, "affect_history")]_vars

\* C26 witness: update_affect was the first call on a state made by the
\* factory, whose current_affect has left the baseline while baseline_affect
\* is what it was
C26_Witness ==
  /\ Called(1, "update_affect")
  /\ steps[1] = 1
  /\ last[1].pre.current_affect = last[1].pre.baseline_affect
  /\ obj[1].current_affect # obj[1].baseline_affect
  /\ obj[1].baseline_affect = last[1].pre.baseline_affect
  /\ Len(obj[1].affect_history) = 1


\* ------------------------------------------------------------------
\* C27: calls interleaved on one instance
\* ------------------------------------------------------------------
ThreadsDone == \A t \in Threads : running.thread[t].pc = "done"

\* the call of thread t made on self from start to end with nothing in between
ApplyCall(self, t) ==
  LET call == running.thread[t]
  IN  IF call.op = "update_affect" THEN update_affect(self, call.arg, clock)
      ELSE IF call.op = "decay" THEN decay(self, call.arg, clock)
      ELSE appraise_message(self, call.arg).state

\* the call of thread first, then that of thread second, from the state the
\* two threads found
InOrder(first, second) == ApplyCall(ApplyCall(running.start, first), second)

\* the state thread t alone would have left
Alone(t) == ApplyCall(running.start, t)

\* C27: when the caller serializes the calls made on one instance, the state
\* left by the two calls is the state left by making them one after the other
\* in the order in which they began; a final state that is anything else is
\* left only by calls that were not serialized.
C27_Serialization ==
  ThreadsDone =>
    (obj[1] # InOrder(running.order[1], running.order[2]) => ~running.serialized)

\* update_affect and decay interleaved without serialization: the affect left
\* is the one decay alone would leave (or update_affect alone), the other
\* assignment lost, though in either order the two calls leave another affect
C27_Witness ==
  /\ ThreadsDone
  /\ ~running.serialized
  /\ {running.thread[t].op : t \in Threads} = {"update_affect", "decay"}
  /\ \E t \in Threads :
       /\ obj[1].current_affect = Alone(t).current_affect
       /\ \A u \in Threads \ {t} : Alone(u).current_affect # running.start.current_affect
  /\ obj[1].current_affect # InOrder(1, 2).current_affect
  /\ obj[1].current_affect # InOrder(2, 1).current_affect

\* appraise_message and decay interleaved without serialization: the play
\* activation left is the one appraise_message alone would leave, the scaling
\* by decay lost
C27_LostActivation ==
  /\ ThreadsDone
  /\ ~running.serialized
  /\ \E t \in Threads :
       /\ running.thread[t].op = "appraise_message"
       /\ \A u \in Threads \ {t} : running.thread[u].op = "decay"
       /\ obj[1].system_activations["play"] = Alone(t).system_activations["play"]
       /\ \A u \in Threads \ {t} :
            Alone(u).system_activations["play"] # running.start.system_activations["play"]
  /\ obj[1].system_activations["play"] # InOrder(1, 2).system_activations["play"]
  /\ obj[1].system_activations["play"] # InOrder(2, 1).system_activations["play"]

\* two serialized calls whose order matters, both made
C27_SerializedCalls ==
  /\ ThreadsDone
  /\ running.serialized
  /\ InOrder(1, 2) # InOrder(2, 1)
  /\ obj[1] = InOrder(running.order[1], running.order[2])
  /\ obj[1] # running.start

\* ------------------------------------------------------------------
\* C28: the LUST system of a state made by the factory
\* ------------------------------------------------------------------
\* C28: in a state made by the factory the LUST activation is 0 after every
\* sequence of appraise_message, update_affect and decay calls, in the state
\* and in every recorded snapshot; LUST is never the dominant system and is
\* never among the systems that enter system_influence.
C28_LustInactive ==
  \A i \in Instances :
    made[i] = "ok" =>
      /\ obj[i].system_activations["lust"] = 0
      /\ \A k \in DOMAIN obj[i].affect_history : obj[i].affect_history[k].systems["lust"] = 0
      /\ \A d \in DOMAIN get_dominant_system(obj[i]) :
           get_dominant_system(obj[i])[d].system # "lust"
      /\ "lust" \notin ActiveSystems(obj[i])

\* three calls made, a message appraised, a snapshot recorded, some system
\* dominant and entering system_influence, LUST still at 0
C28_Witness ==
  /\ made[1] = "ok"
  /\ steps[1] = MaxSteps
  /\ obj[1].last_appraisal # None
  /\ Len(obj[1].affect_history) > 0
  /\ get_dominant_system(obj[1]) # None
  /\ SystemInfluence(obj[1].system_activations) # SystemInfluence(ZeroActivations)
  /\ obj[1].system_activations["lust"] = 0

\* ------------------------------------------------------------------
\* C29: the AppraisalResult depends on the text alone
\* ------------------------------------------------------------------
\* instance i was built, appraised the message of its last call, and then
\* appraised it again
AppraisedTwice(i) ==
  /\ Called(i, "appraise_message")
  /\ \E profile \in TextProfiles :
       last[i].pre = appraise_message(TextBuild(TextId(i), profile), last[i].arg).state

\* C29: two instances, whatever their current_affect, baseline_affect, system
\* activations, inertia, history and last_appraisal, return equal
\* AppraisalResults for the same text; and a text appraised twice in a row on
\* one instance returns the second time what it returned the first time.
C29_TextAlone ==
  /\ \A i, j \in Instances :
       (Called(i, "appraise_message") /\ Called(j, "appraise_message")
          /\ last[i].arg = last[j].arg) =>
         last[i].ret = last[j].ret
  /\ \A i \in Instances :
       AppraisedTwice(i) => last[i].ret = last[i].pre.last_appraisal[1]

\* the same matching text appraised last on two instances that differed in
\* every field before the call, one of them appraising it for the second time
C29_Witness ==
  /\ Called(1, "appraise_message") /\ Called(2, "appraise_message")
  /\ last[1].arg = last[2].arg
  /\ last[1].ret # AppraisalResult
  /\ AppraisedTwice(1)
  /\ last[1].pre.current_affect # last[2].pre.current_affect
  /\ last[1].pre.baseline_affect # last[2].pre.baseline_affect
  /\ last[1].pre.system_activations # last[2].pre.system_activations
  /\ last[1].pre.emotional_inertia # last[2].pre.emotional_inertia
  /\ last[1].pre.affect_history # last[2].pre.affect_history
  /\ last[1].pre.last_appraisal # last[2].pre.last_appraisal

\* ------------------------------------------------------------------
\* C30: the fallback text of get_response_modifier
\* ------------------------------------------------------------------
\* no modifier of valence, arousal or dominance applies
NoDimensionModifier(affect) ==
  /\ ~Above(affect.valence, 500) /\ ~Below(affect.valence, -500)
  /\ ~Above(affect.arousal, 500) /\ ~Below(affect.arousal, -300)
  /\ ~Above(affect.dominance, 500) /\ ~Below(affect.dominance, -500)

\* C30: get_response_modifier never returns "[Emotional state: neutral]": in
\* every state some modifier is present, since whenever no modifier of
\* valence, arousal or dominance applies the confidence of the nearest label
\* is above 0.5 and the phrase naming that label is part of the text.
C30_NeverNeutral ==
  \A i \in Instances :
    Called(i, "get_response_modifier") =>
      /\ last[i].ret # "[Emotional state: neutral]"
      /\ NoDimensionModifier(obj[i].current_affect) =>
           get_emotion_label(obj[i]).confidence > 500

\* the same for the states whose valence, arousal and dominance are numbers
C30_NumericStates ==
  \A i \in Instances :
    (/\ Called(i, "get_response_modifier")
     /\ ~IsNaN(obj[i].current_affect.valence)) =>
      /\ last[i].ret # "[Emotional state: neutral]"
      /\ NoDimensionModifier(obj[i].current_affect) =>
           /\ get_emotion_label(obj[i]).confidence > 500
           /\ DistanceSquared(obj[i].current_affect, AffectiveDimensions(0, 0, 0))
                < Scale * Scale

\* a numeric state inside the box with no system active: the text names the
\* nearest label only
C30_BoxState ==
  /\ Called(1, "get_response_modifier")
  /\ obj[1].current_affect = AffectiveDimensions(500, 500, 500)
  /\ obj[1].system_activations = ZeroActivations
  /\ Len(Modifiers(obj[1])) = 1
=============================================================================
